---- MODULE Spec2Model ----
(***************************************************************************)
(* A model of the procedural world generator of zengine:                   *)
(*   world/territory.py   TerritoryManager                                  *)
(*   world/generator.py   SettlementPlanner, BSPDungeonGenerator,           *)
(*                        ChunkManager                                      *)
(*   engine/loop.py       SimulationLoop.resume_session (rebuild of world)  *)
(*                                                                          *)
(* Python's hash() and random.Random(seed) are deterministic functions of   *)
(* their arguments; they are modelled by the arithmetic mixers HashInts and *)
(* RandomDraw below, so that "the same seed gives the same draws" is a fact *)
(* of the model and "different stream positions give different draws" can   *)
(* happen.  The BSP generator is checked for all outcomes of its draws, so  *)
(* there its draws are nondeterministic choices.                            *)
(***************************************************************************)
EXTENDS Integers, Sequences, FiniteSets, TLC

\* ------------------------------------------------------------------ bounds
MaxSeed == 4          \* world seeds 1..MaxSeed
MaxSalt == 1          \* per-process string-hash salts 0..MaxSalt
NumRumors == 3        \* rumors that can be added
MaxDim == 13          \* largest dungeon width/height explored
NumCallers == 2      \* concurrent callers of get_chunk
MaxPlannerDraws == 30 \* plan_settlement is called while the planner has drawn fewer
MaxRebuilds == 1      \* resume_session calls in one behaviour

\* ------------------------------------------------------- program constants
MACRO_REGION_SIZE == 8
CHUNK_SIZE == 20
NUM_FACTIONS == 5
MIN_ROOM_SIZE == 6
BSP_ITERATIONS == 4
PLACE_ATTEMPTS == 10

VARIABLES
    world_seed,        \* ChunkManager.world_seed / TerritoryManager.world_seed
    hash_salt,         \* the process's string-hash randomisation
    has_territory,     \* ChunkManager.territory is not None
    overrides,         \* TerritoryManager.overrides: (cx, cy) -> TerritoryNode
    generated_chunks,  \* ChunkManager.generated_chunks: (x, y) -> chunk record
    rumor_queue,       \* ChunkManager.rumor_queue
    planner_rng,       \* position in the stream of SettlementPlanner.rng
    last,              \* the last TerritoryManager call and what it returned
    history,           \* observations kept across calls (not program state)
    bsp,               \* the state of one BSPDungeonGenerator run
    registry,          \* SimulationLoop.registry: the live entities, by chunk
    virtual_entities,  \* SimulationLoop.virtual_entities: chunk key -> stored entities
    snapshot,          \* the spatial snapshot file save_session wrote
    threads,           \* concurrent get_chunk callers and where each stands
    tables             \* the loaded data: module, biome and population tables

vars == <<world_seed, hash_salt, has_territory, overrides, generated_chunks,
          rumor_queue, planner_rng, last, history, bsp,
          registry, virtual_entities, snapshot, threads, tables>>

\* The simulation loop's own state, the concurrent callers and the loaded data.
loop_state == <<registry, virtual_entities, snapshot, threads, tables>>

\* Optional[T]: None is the empty sequence, a value v is <<v>>.
None == <<>>
Some(v) == <<v>>

\* ------------------------------------------------------ loaded data tables
\* The module, biome and population tables are read-only data loaded from
\* files; these are the tables the model is run with.  A module's map is kept
\* as data_loader gives it after map.strip().split("\n"): rows of characters.
ModuleTable ==
    [tavern_heart |->
        [id |-> "tavern_heart",
         map |-> << <<"#", "#", "#">>,
                    <<"#", ".", "#">>,
                    <<"#", "+", "#">> >>,
         spawns |-> <<[type |-> "npc", id |-> "Innkeeper", lx |-> 1, ly |-> 1]>>],
     small_room |->
        [id |-> "small_room",
         map |-> << <<"+", ".">>,
                    <<"#", "#">> >>,
         spawns |-> <<[type |-> "container", id |-> "Footlocker", lx |-> 1, ly |-> 0]>>],
     garden_unit |->
        [id |-> "garden_unit",
         map |-> << <<"~", ".">> >>,
         spawns |-> <<[type |-> "item", id |-> "materials/wooden_plank", lx |-> 1, ly |-> 0]>>]]

\* Densities are percentages; ranges are percentages of the normalised sample.
BiomeTable ==
    << [id |-> "desert", temp_range |-> <<60, 100>>, hum_range |-> <<0, 40>>,
        water_density |-> 0, tree_density |-> 2, rubble_density |-> 10, grass_density |-> 5],
       [id |-> "plains", temp_range |-> <<0, 100>>, hum_range |-> <<0, 100>>,
        water_density |-> 5, tree_density |-> 10, rubble_density |-> 5, grass_density |-> 50],
       [id |-> "forest", temp_range |-> <<30, 80>>, hum_range |-> <<30, 100>>,
        water_density |-> 10, tree_density |-> 40, rubble_density |-> 5, grass_density |-> 30] >>

PopulationTable == [plains |-> <<"wolf">>, forest |-> <<"bandit", "wolf">>]

LoadedTables == [modules |-> ModuleTable, biomes |-> BiomeTable, population |-> PopulationTable]

\* ------------------------------------------------------- hash and random
\* hash() of a tuple of ints: a deterministic function of the elements.
RECURSIVE HashFold(_, _, _)
HashFold(t, i, h) ==
    IF i > Len(t) THEN h ELSE HashFold(t, i + 1, (h * 31 + t[i] + 7) % 10007)

HashInts(t) == HashFold(t, 1, 17)

\* hash() of the string "macro_region": depends on the process's salt.
HashStr(salt) == 4241 + 977 * salt

\* The i-th raw draw (0..1008) of random.Random(seed).
RandomDraw(seed, i) ==
    LET a == (seed * 1103 + i * 7919 + 12345) % 10007
    IN  (a * a + 31 * a + 7) % 1009

\* random.Random(seed).randint(lo, hi) taken at stream position i.
RandInt(seed, i, lo, hi) == lo + (RandomDraw(seed, i) % (hi - lo + 1))

\* random.Random(seed).random() taken at stream position i, in percent.
RandPercent(seed, i) == RandomDraw(seed, i) % 100

\* floor division and modulo as Python defines them for a positive divisor
\* A division that rounds toward zero, as C's does.
FloorDiv_TowardZero(a, b) == IF a < 0 THEN 0 - ((0 - a) \div b) ELSE a \div b

FloorDiv(a, b) == a \div b
PyMod(a, b) == a % b

\* ------------------------------------------------------------- territory
\* f"faction_{i}"
FactionName(i) == <<"faction", i>>

Factions == [i \in 1..NUM_FACTIONS |-> FactionName(i)]

TerritoryNode(id, cx, cy, poi, f) ==
    [id |-> id, chunk_x |-> cx, chunk_y |-> cy, poi_type |-> poi, faction_id |-> f]

PoiTypeOfDraw(u) ==
    IF u < 30 THEN "settlement" ELSE IF u < 70 THEN "dungeon" ELSE "encampment"

RegionSeed(seed, salt, mx, my) == HashInts(<<seed, HashStr(salt), mx, my>>)

GenerateNodeForRegion(seed, salt, mx, my) ==
    LET rs == RegionSeed(seed, salt, mx, my)
        cx == mx * MACRO_REGION_SIZE + RandInt(rs, 0, 2, 5)
        cy == my * MACRO_REGION_SIZE + RandInt(rs, 1, 2, 5)
        poi == PoiTypeOfDraw(RandPercent(rs, 2))
        f == Factions[RandInt(rs, 3, 1, NUM_FACTIONS)]
    IN  TerritoryNode(<<"node", mx, my>>, cx, cy, poi, f)

GetNodeAt_NoYCheck(seed, salt, ov, cx, cy) ==
    IF <<cx, cy>> \in DOMAIN ov THEN Some(ov[<<cx, cy>>])
    ELSE LET node == GenerateNodeForRegion(seed, salt,
                         FloorDiv(cx, MACRO_REGION_SIZE), FloorDiv(cy, MACRO_REGION_SIZE))
         IN  IF node.chunk_x = cx THEN Some(node) ELSE None

GetNodeAt(seed, salt, ov, cx, cy) ==
    IF <<cx, cy>> \in DOMAIN ov THEN Some(ov[<<cx, cy>>])
    ELSE LET node == GenerateNodeForRegion(seed, salt,
                         FloorDiv(cx, MACRO_REGION_SIZE), FloorDiv(cy, MACRO_REGION_SIZE))
         IN  IF node.chunk_x = cx /\ node.chunk_y = cy THEN Some(node) ELSE None

\* A lookup of the override under the queried chunk instead of the node's.
GetControllingFaction_ByQueriedChunk(seed, salt, ov, cx, cy) ==
    LET node == GenerateNodeForRegion(seed, salt,
                    FloorDiv(cx, MACRO_REGION_SIZE), FloorDiv(cy, MACRO_REGION_SIZE))
        key == <<cx, cy>>
    IN  IF key \in DOMAIN ov THEN ov[key].faction_id ELSE node.faction_id

GetControllingFaction(seed, salt, ov, cx, cy) ==
    LET node == GenerateNodeForRegion(seed, salt,
                    FloorDiv(cx, MACRO_REGION_SIZE), FloorDiv(cy, MACRO_REGION_SIZE))
        key == <<node.chunk_x, node.chunk_y>>
    IN  IF key \in DOMAIN ov THEN ov[key].faction_id ELSE node.faction_id

\* capture_node: <<returned value, new override table>>
CaptureNode_NoNodeCheck(seed, salt, ov, cx, cy, f) ==
    LET gen == GenerateNodeForRegion(seed, salt,
                   FloorDiv(cx, MACRO_REGION_SIZE), FloorDiv(cy, MACRO_REGION_SIZE))
        new_node == TerritoryNode(gen.id, cx, cy, gen.poi_type, f)
    IN  <<TRUE, [k \in DOMAIN ov \cup {<<cx, cy>>} |->
                    IF k = <<cx, cy>> THEN new_node ELSE ov[k]]>>

CaptureNode_KeyedByRegion(seed, salt, ov, cx, cy, f) ==
    LET node == GetNodeAt(seed, salt, ov, cx, cy)
    IN  IF node = None THEN <<FALSE, ov>>
        ELSE LET n == node[1]
                 key == <<PyMod(cx, MACRO_REGION_SIZE), PyMod(cy, MACRO_REGION_SIZE)>>
                 new_node == TerritoryNode(n.id, n.chunk_x, n.chunk_y, n.poi_type, f)
             IN  <<TRUE, [k \in DOMAIN ov \cup {key} |->
                             IF k = key THEN new_node ELSE ov[k]]>>

CaptureNode(seed, salt, ov, cx, cy, f) ==
    LET node == GetNodeAt(seed, salt, ov, cx, cy)
    IN  IF node = None THEN <<FALSE, ov>>
        ELSE LET n == node[1]
                 new_node == TerritoryNode(n.id, n.chunk_x, n.chunk_y, n.poi_type, f)
             IN  <<TRUE, [k \in DOMAIN ov \cup {<<cx, cy>>} |->
                             IF k = <<cx, cy>> THEN new_node ELSE ov[k]]>>

\* --------------------------------------------- the territory specification
\* The macro-regions looked at, and all chunk coordinates in them.
Regions == {<<-1, -1>>, <<0, 0>>}

RegionOf(c) == <<FloorDiv(c[1], MACRO_REGION_SIZE), FloorDiv(c[2], MACRO_REGION_SIZE)>>

RegionCoords(r) ==
    {<<r[1] * MACRO_REGION_SIZE + i, r[2] * MACRO_REGION_SIZE + j>> :
        i \in 0..(MACRO_REGION_SIZE - 1), j \in 0..(MACRO_REGION_SIZE - 1)}

AllRegionCoords == UNION {RegionCoords(r) : r \in Regions}

Anchor(seed, salt, r) ==
    LET n == GenerateNodeForRegion(seed, salt, r[1], r[2]) IN <<n.chunk_x, n.chunk_y>>

\* The coordinates the calls are made with: each region's anchor, the chunk
\* east of it and the region's first chunk.
CallCoords(seed, salt) ==
    UNION {{Anchor(seed, salt, r),
            <<Anchor(seed, salt, r)[1] + 1, Anchor(seed, salt, r)[2]>>,
            <<r[1] * MACRO_REGION_SIZE, r[2] * MACRO_REGION_SIZE>>} : r \in Regions}

CaptureFactions == {FactionName(1), FactionName(2), FactionName(999)}

NoCall == [op |-> "none", args |-> <<>>, result |-> <<>>]

NoHistory ==
    [captured |-> <<>>,     \* (cx, cy) -> faction of the last successful capture
     gen_count |-> <<>>,    \* (x, y) -> times _generate_chunk ran for it
     first_gen |-> <<>>,    \* (x, y) -> the record of its first generation
     added |-> <<>>,        \* the rumors given to add_rumor, in call order
     returned |-> {},       \* the rumors get_next_rumor returned
     rebuilds |-> 0,        \* times resume_session rebuilt the world
     saved |-> <<>>,        \* the world as it was at the last save_session
     spawned |-> <<>>]      \* (x, y) -> times the chunk's spawns were instantiated

Put(f, k, v) == [x \in DOMAIN f \cup {k} |-> IF x = k THEN v ELSE f[x]]

NoBsp == [pc |-> "idle"]

\* A simulation loop that has spawned nothing, saved nothing, and no
\* concurrent caller.
LoopIdle ==
    /\ tables = LoadedTables
    /\ registry = {}
    /\ virtual_entities = <<>>
    /\ snapshot = None
    /\ threads = <<>>

TerritoryInit ==
    /\ LoopIdle
    /\ world_seed \in 1..MaxSeed
    /\ hash_salt \in 0..MaxSalt
    /\ has_territory = TRUE
    /\ overrides = <<>>
    /\ generated_chunks = <<>>
    /\ rumor_queue = <<>>
    /\ planner_rng = 0
    /\ last = NoCall
    /\ history = NoHistory
    /\ bsp = NoBsp

\* capture_node(c, f) on the territory manager.
CaptureNodeAt(c, f) ==
    LET r == CaptureNode(world_seed, hash_salt, overrides, c[1], c[2], f)
    IN  /\ overrides' = r[2]
        /\ last' = [op |-> "capture_node", args |-> <<c[1], c[2], f>>, result |-> r[1]]
        /\ history' = IF r[1] THEN [history EXCEPT !.captured = Put(@, c, f)]
                      ELSE history
        /\ UNCHANGED <<loop_state, world_seed, hash_salt, has_territory, generated_chunks,
                       rumor_queue, planner_rng, bsp>>

CallCaptureNode ==
    \E c \in CallCoords(world_seed, hash_salt), f \in CaptureFactions : CaptureNodeAt(c, f)

CallGetNodeAt ==
    \E c \in CallCoords(world_seed, hash_salt) :
        /\ last' = [op |-> "get_node_at", args |-> c,
                    result |-> GetNodeAt(world_seed, hash_salt, overrides, c[1], c[2])]
        /\ UNCHANGED <<loop_state, world_seed, hash_salt, has_territory, overrides, generated_chunks,
                       rumor_queue, planner_rng, history, bsp>>

CallGetControllingFaction ==
    \E c \in CallCoords(world_seed, hash_salt) :
        /\ last' = [op |-> "get_controlling_faction", args |-> c,
                    result |-> GetControllingFaction(world_seed, hash_salt, overrides, c[1], c[2])]
        /\ UNCHANGED <<loop_state, world_seed, hash_salt, has_territory, overrides, generated_chunks,
                       rumor_queue, planner_rng, history, bsp>>

TerritoryNext == CallCaptureNode \/ CallGetNodeAt \/ CallGetControllingFaction

SpecTerritory == TerritoryInit /\ [][TerritoryNext]_vars

\* C5: with no override present, every macro-region (negative indices
\* included) has exactly one coordinate where get_node_at returns a node, and
\* that coordinate lies at offsets 2..5 on both axes of the region.
NodeCoords(r) ==
    {c \in RegionCoords(r) : GetNodeAt(world_seed, hash_salt, overrides, c[1], c[2]) # None}

C5_OneNodePerRegion ==
    overrides = <<>> =>
        \A r \in Regions :
            /\ Cardinality(NodeCoords(r)) = 1
            /\ \A c \in NodeCoords(r) :
                  /\ c[1] - r[1] * MACRO_REGION_SIZE \in 2..5
                  /\ c[2] - r[2] * MACRO_REGION_SIZE \in 2..5

C5_Witness ==
    /\ overrides = <<>>
    /\ last.op = "get_node_at"
    /\ last.result # None
    /\ last.args[1] < 0
    /\ last.args[2] < 0

\* C6: after a successful capture_node(x, y, F) both get_controlling_faction(x, y)
\* and get_node_at(x, y).faction_id are F until the next successful capture of
\* that node, and a successful capture changes no answer in another macro-region.
C6_CapturePersists ==
    \A c \in DOMAIN history.captured :
        /\ GetControllingFaction(world_seed, hash_salt, overrides, c[1], c[2]) = history.captured[c]
        /\ GetNodeAt(world_seed, hash_salt, overrides, c[1], c[2]) # None
        /\ GetNodeAt(world_seed, hash_salt, overrides, c[1], c[2])[1].faction_id = history.captured[c]

C6_OtherRegionsKept ==
    (last'.op = "capture_node" /\ last'.result = TRUE) =>
        \A c \in AllRegionCoords :
            RegionOf(c) # RegionOf(<<last'.args[1], last'.args[2]>>) =>
                /\ GetNodeAt(world_seed, hash_salt, overrides', c[1], c[2])
                     = GetNodeAt(world_seed, hash_salt, overrides, c[1], c[2])
                /\ GetControllingFaction(world_seed, hash_salt, overrides', c[1], c[2])
                     = GetControllingFaction(world_seed, hash_salt, overrides, c[1], c[2])

C6_CaptureFrame == []C6_CapturePersists /\ [][C6_OtherRegionsKept]_vars

C6_Witness ==
    /\ Cardinality(DOMAIN history.captured) = 2
    /\ last.op = "capture_node"
    /\ last.result = TRUE
    /\ last.args[3] = FactionName(999)

\* C7: capture_node on a coordinate where get_node_at returns None returns
\* False and leaves the override table, hence every later answer, unchanged.
C7_FailedCapture ==
    (last'.op = "capture_node"
        /\ GetNodeAt(world_seed, hash_salt, overrides, last'.args[1], last'.args[2]) = None) =>
            /\ last'.result = FALSE
            /\ overrides' = overrides

C7_FailedCaptureIsNoOp == [][C7_FailedCapture]_vars

C7_Witness ==
    /\ last.op = "capture_node"
    /\ last.result = FALSE
    /\ overrides # <<>>

\* --------------------------------------------------- BSPDungeonGenerator
\* The partition tree is kept by heap index: the root is 1, the children of
\* node i are 2i (left) and 2i+1 (right).
Rect(x, y, w, h) == [x |-> x, y |-> y, w |-> w, h |-> h]

Max(a, b) == IF a >= b THEN a ELSE b
Min(a, b) == IF a <= b THEN a ELSE b

IsLeaf(tree, i) == (2 * i) \notin DOMAIN tree

\* _split: whether the node is cut along y (split_horizontal) given the draw.
SplitHorizontal(rect, draw) ==
    IF 4 * rect.w > 5 * rect.h THEN FALSE
    ELSE IF 4 * rect.h > 5 * rect.w THEN TRUE
    ELSE draw

MaxSplit(rect, horizontal, m) == (IF horizontal THEN rect.h ELSE rect.w) - m

CanSplit(rect, horizontal, m) == MaxSplit(rect, horizontal, m) > m

SplitLeft(rect, horizontal, split) ==
    IF horizontal THEN Rect(rect.x, rect.y, rect.w, split)
    ELSE Rect(rect.x, rect.y, split, rect.h)

SplitRight(rect, horizontal, split) ==
    IF horizontal THEN Rect(rect.x, rect.y + split, rect.w, rect.h - split)
    ELSE Rect(rect.x + split, rect.y, rect.w - split, rect.h)

\* _create_rooms: the room of a leaf for the drawn paddings and offsets.
RoomDim(leaf_dim, pad) == Max(3, leaf_dim - 2 * pad)

OffsetIsDrawn(leaf_dim, room_dim) == leaf_dim - room_dim - 1 > 1

\* The cells a carving loop writes: only those inside the grid.
InGrid(width, height, x, y) == 0 <= x /\ x < width /\ 0 <= y /\ y < height

RoomCells(width, height, room) ==
    {<<cx, cy>> \in (room.x..(room.x + room.w - 1)) \X (room.y..(room.y + room.h - 1)) :
        InGrid(width, height, cx, cy)}

CarveHCorridor(width, height, x1, x2, y) ==
    {<<x, y>> : x \in {v \in Min(x1, x2)..Max(x1, x2) : InGrid(width, height, v, y)}}

CarveVCorridor(width, height, y1, y2, x) ==
    {<<x, y>> : y \in {v \in Min(y1, y2)..Max(y1, y2) : InGrid(width, height, x, v)}}

CenterX(room) == room.x + room.w \div 2
CenterY(room) == room.y + room.h \div 2

\* _connect_rooms: the corridor between two rooms' centers.
Corridor(width, height, l, r, h_first) ==
    IF h_first
    THEN CarveHCorridor(width, height, CenterX(l), CenterX(r), CenterY(l))
           \cup CarveVCorridor(width, height, CenterY(l), CenterY(r), CenterX(r))
    ELSE CarveVCorridor(width, height, CenterY(l), CenterY(r), CenterX(l))
           \cup CarveHCorridor(width, height, CenterX(l), CenterX(r), CenterY(r))

\* The order in which _create_rooms visits the leaves below node i.
RECURSIVE LeavesInOrder(_, _)
LeavesInOrder(tree, i) ==
    IF IsLeaf(tree, i) THEN <<i>>
    ELSE LeavesInOrder(tree, 2 * i) \o LeavesInOrder(tree, 2 * i + 1)

\* The order in which _connect_rooms finishes the inner nodes below node i.
RECURSIVE InnerPostOrder(_, _)
InnerPostOrder(tree, i) ==
    IF IsLeaf(tree, i) THEN <<>>
    ELSE InnerPostOrder(tree, 2 * i) \o InnerPostOrder(tree, 2 * i + 1) \o <<i>>

\* BSPDungeonGenerator(width, height, seed) followed by the start of generate().
\* A seeded run takes its draws from the stream of random.Random(seed); an
\* unseeded run (seeded = FALSE) stands for every seed: each draw is any value
\* of its range.
BspStart(width, height, seeded, seed) ==
    [pc |-> "split", width |-> width, height |-> height,
     seeded |-> seeded, seed |-> seed, drawn |-> 0,
     tree |-> (1 :> Rect(0, 0, width, height)),
     work |-> <<<<1, BSP_ITERATIONS>>>>,
     room |-> <<>>, rooms |-> <<>>, tiles |-> {}, rep |-> <<>>]

\* The grids explored: every width and height up to MaxDim with at least one
\* axis too short to be split.
NoSplitDim == 2 * MIN_ROOM_SIZE

BspDims ==
    {d \in (1..MaxDim) \X (1..MaxDim) : d[1] <= NoSplitDim \/ d[2] <= NoSplitDim}

\* The grids of the seeded runs: the one ChunkManager asks for and the tests'.
BspSeededDims == {<<40, 40>>, <<30, 30>>}

\* The k-th next draw of a run, as randint(lo, hi) and as choice([True, False]).
Draws(b, k, lo, hi) ==
    IF b.seeded THEN {RandInt(b.seed, b.drawn + k, lo, hi)} ELSE lo..hi

DrawsBool(b, k) == {v = 0 : v \in Draws(b, k, 0, 1)}

Drawn(b, n) == IF b.seeded THEN [b EXCEPT !.drawn = @ + n] ELSE b

BspInit ==
    /\ LoopIdle
    /\ world_seed = 1
    /\ hash_salt = 0
    /\ has_territory = TRUE
    /\ overrides = <<>>
    /\ generated_chunks = <<>>
    /\ rumor_queue = <<>>
    /\ planner_rng = 0
    /\ last = NoCall
    /\ history = NoHistory
    /\ \/ \E d \in BspDims : bsp = BspStart(d[1], d[2], FALSE, 0)
       \/ \E d \in BspSeededDims, seed \in 1..MaxSeed : bsp = BspStart(d[1], d[2], TRUE, seed)

notBsp == <<world_seed, hash_salt, has_territory, overrides, generated_chunks,
            rumor_queue, planner_rng, last, history, loop_state>>

\* _create_rooms: the offsets of a room inside its leaf, the k-th next draw if
\* there is room to move it and 1 otherwise.
RoomOffsets(b, k, leaf_dim, room_dim) ==
    IF OffsetIsDrawn(leaf_dim, room_dim) THEN Draws(b, k, 1, leaf_dim - room_dim - 1) ELSE {1}

\* _create_rooms descending into the left child only.
AfterSplit_LeftLeafOnly(b, tree, work) ==
    IF work # <<>> THEN [b EXCEPT !.tree = tree, !.work = work]
    ELSE [b EXCEPT !.tree = tree, !.pc = "rooms", !.work = <<LeavesInOrder(tree, 1)[1]>>]

\* After the last _split call returns, generate() goes on to _create_rooms.
AfterSplit(b, tree, work) ==
    IF work # <<>> THEN [b EXCEPT !.tree = tree, !.work = work]
    ELSE [b EXCEPT !.tree = tree, !.pc = "rooms", !.work = LeavesInOrder(tree, 1)]

\* One call of _split(node, iterations).
BspSplit ==
    /\ bsp.pc = "split"
    /\ LET i == bsp.work[1][1]
           iterations == bsp.work[1][2]
           rect == bsp.tree[i]
           rest == Tail(bsp.work)
       IN  \/ /\ iterations = 0
              /\ bsp' = AfterSplit(bsp, bsp.tree, rest)
           \/ /\ iterations > 0
              /\ \E draw \in DrawsBool(bsp, 0) :
                   LET horizontal == SplitHorizontal(rect, draw)
                   IN  IF ~CanSplit(rect, horizontal, MIN_ROOM_SIZE)
                       THEN bsp' = AfterSplit(Drawn(bsp, 1), bsp.tree, rest)
                       ELSE \E split \in Draws(bsp, 1, MIN_ROOM_SIZE,
                                                MaxSplit(rect, horizontal, MIN_ROOM_SIZE)) :
                              bsp' = AfterSplit(Drawn(bsp, 2),
                                        (2 * i :> SplitLeft(rect, horizontal, split))
                                          @@ (2 * i + 1 :> SplitRight(rect, horizontal, split))
                                          @@ bsp.tree,
                                        <<<<2 * i, iterations - 1>>, <<2 * i + 1, iterations - 1>>>>
                                          \o rest)
    /\ UNCHANGED notBsp

\* After the last leaf is carved, generate() goes on to _connect_rooms.
AfterRooms(b) ==
    IF b.work # <<>> THEN b
    ELSE LET inner == InnerPostOrder(b.tree, 1)
         IN  IF inner = <<>> THEN [b EXCEPT !.pc = "done"]
             ELSE [b EXCEPT !.pc = "connect", !.work = inner]

\* _create_rooms at one leaf.
BspCreateRoom ==
    /\ bsp.pc = "rooms"
    /\ LET i == bsp.work[1]
           rect == bsp.tree[i]
       IN  \E pad_x \in Draws(bsp, 0, 1, 2), pad_y \in Draws(bsp, 1, 1, 2) :
             LET w == RoomDim(rect.w, pad_x)
                 h == RoomDim(rect.h, pad_y)
                 nx == IF OffsetIsDrawn(rect.w, w) THEN 1 ELSE 0
                 ny == IF OffsetIsDrawn(rect.h, h) THEN 1 ELSE 0
             IN  \E ox \in RoomOffsets(bsp, 2, rect.w, w),
                    oy \in RoomOffsets(bsp, 2 + nx, rect.h, h) :
                   LET room == Rect(rect.x + ox, rect.y + oy, w, h)
                   IN  bsp' = AfterRooms([Drawn(bsp, 2 + nx + ny) EXCEPT
                                 !.room = (i :> room) @@ @,
                                 !.rooms = Append(@, room),
                                 !.tiles = @ \cup RoomCells(bsp.width, bsp.height, room),
                                 !.work = Tail(@)])
    /\ UNCHANGED notBsp

\* What _connect_rooms returned for node i.
Representative(b, i) == IF IsLeaf(b.tree, i) THEN b.room[i] ELSE b.rep[i]

\* _connect_rooms at one inner node, its two subtrees being connected.
BspConnect ==
    /\ bsp.pc = "connect"
    /\ LET i == bsp.work[1]
           l == Representative(bsp, 2 * i)
           r == Representative(bsp, 2 * i + 1)
       IN  \E h_first \in DrawsBool(bsp, 0), keep_left \in DrawsBool(bsp, 1) :
             bsp' = [Drawn(bsp, 2) EXCEPT
                       !.tiles = @ \cup Corridor(bsp.width, bsp.height, l, r, h_first),
                       !.rep = (i :> (IF keep_left THEN l ELSE r)) @@ @,
                       !.work = Tail(@),
                       !.pc = IF Tail(bsp.work) = <<>> THEN "done" ELSE "connect"]
    /\ UNCHANGED notBsp

BspNext == BspSplit \/ BspCreateRoom \/ BspConnect

SpecBSP == BspInit /\ [][BspNext]_vars

\* The tile generate() returns at (x, y).
TileAt(b, x, y) == IF <<x, y>> \in b.tiles THEN "floor" ELSE "wall"

\* C8: every room generate() returns lies fully inside the grid and the tile
\* at its center is a floor tile, for every width, height and seed.
C8_RoomsInBounds ==
    bsp.pc = "done" =>
        \A k \in 1..Len(bsp.rooms) :
            LET room == bsp.rooms[k]
            IN  /\ room.x >= 0 /\ room.y >= 0
                /\ room.x + room.w <= bsp.width
                /\ room.y + room.h <= bsp.height
                /\ TileAt(bsp, CenterX(room), CenterY(room)) = "floor"

\* The floor tiles reachable from a set of floor tiles by 4-neighbour steps.
Neighbours(c) == {<<c[1] + 1, c[2]>>, <<c[1] - 1, c[2]>>, <<c[1], c[2] + 1>>, <<c[1], c[2] - 1>>}

RECURSIVE Reachable(_, _, _)
Reachable(frontier, seen, floor) ==
    LET next == (UNION {Neighbours(c) : c \in frontier} \cap floor) \ seen
    IN  IF next = {} THEN seen ELSE Reachable(next, seen \cup next, floor)

\* C9: after generate() every floor tile is reachable from every other floor
\* tile by 4-neighbour steps over floor tiles, for every width and height.
C9_FloorConnected ==
    (bsp.pc = "done" /\ bsp.tiles # {}) =>
        LET start == CHOOSE c \in bsp.tiles : TRUE
        IN  Reachable({start}, {start}, bsp.tiles) = bsp.tiles

\* ------------------------------------------------------ SettlementPlanner
\* Only({e(v) : v \in {d}}) is e with v naming the value of d, computed once.
Only(S) == CHOOSE v \in S : TRUE

MapWidth(mdef) == Len(mdef.map[1])
MapHeight(mdef) == Len(mdef.map)

\* An overlap test that only sees the first rectangle's corner inside the second.
RectsOverlap_CornerOnly(x1, y1, w1, h1, x2, y2, w2, h2) ==
    x2 <= x1 /\ x1 < x2 + w2 /\ y2 <= y1 /\ y1 < y2 + h2

RectsOverlap(x1, y1, w1, h1, x2, y2, w2, h2) ==
    ~(x1 + w1 <= x2 \/ x2 + w2 <= x1 \/ y1 + h1 <= y2 \/ y2 + h2 <= y1)

LimbIds == <<"small_room", "garden_unit">>

OverlapsAny(placements, nx, ny, lw, lh) ==
    \E k \in 1..Len(placements) :
        LET p == placements[k]
        IN  RectsOverlap(nx, ny, lw, lh, p[2], p[3], MapWidth(p[1]), MapHeight(p[1]))

\* An attempts loop that tries once more than PLACE_ATTEMPTS.
RECURSIVE PlaceLimb_OneMoreAttempt(_, _, _, _, _, _, _, _)
PlaceLimb_OneMoreAttempt(seed, pos, limb, placements, hx, hy, chunk_size, attempt) ==
    IF attempt > PLACE_ATTEMPTS + 1 THEN <<placements, pos>>
    ELSE LET nx == hx + RandInt(seed, pos, -5, 5)
             ny == hy + RandInt(seed, pos + 1, -5, 5)
             lw == MapWidth(limb)
             lh == MapHeight(limb)
         IN  IF /\ 0 <= nx /\ nx < chunk_size - lw
                /\ 0 <= ny /\ ny < chunk_size - lh
                /\ ~OverlapsAny(placements, nx, ny, lw, lh)
             THEN <<Append(placements, <<limb, nx, ny>>), pos + 2>>
             ELSE PlaceLimb_OneMoreAttempt(seed, pos + 2, limb, placements, hx, hy,
                                           chunk_size, attempt + 1)

\* The attempts loop of one limb: <<placements, stream position>> after it.
RECURSIVE PlaceLimb(_, _, _, _, _, _, _, _)
PlaceLimb(seed, pos, limb, placements, hx, hy, chunk_size, attempt) ==
    IF attempt > PLACE_ATTEMPTS THEN <<placements, pos>>
    ELSE LET nx == hx + RandInt(seed, pos, -5, 5)
             ny == hy + RandInt(seed, pos + 1, -5, 5)
             lw == MapWidth(limb)
             lh == MapHeight(limb)
         IN  IF /\ 0 <= nx /\ nx < chunk_size - lw
                /\ 0 <= ny /\ ny < chunk_size - lh
                /\ ~OverlapsAny(placements, nx, ny, lw, lh)
             THEN <<Append(placements, <<limb, nx, ny>>), pos + 2>>
             ELSE PlaceLimb(seed, pos + 2, limb, placements, hx, hy, chunk_size, attempt + 1)

\* The limbs loop: <<placements, stream position>> after the remaining limbs.
RECURSIVE PlaceLimbs(_, _, _, _, _, _, _, _)
PlaceLimbs(modules, seed, pos, placements, hx, hy, chunk_size, remaining) ==
    IF remaining = 0 THEN <<placements, pos>>
    ELSE LET lid == LimbIds[1 + RandInt(seed, pos, 0, 1)]
         IN  IF lid \notin DOMAIN modules
             THEN PlaceLimbs(modules, seed, pos + 1, placements, hx, hy, chunk_size, remaining - 1)
             ELSE Only({PlaceLimbs(modules, seed, r[2], r[1], hx, hy, chunk_size, remaining - 1) :
                          r \in {PlaceLimb(seed, pos + 1, modules[lid], placements, hx, hy,
                                           chunk_size, 1)}})

\* plan_settlement with the planner's generator at stream position pos:
\* <<placements, stream position afterwards>>.
PlanSettlement(modules, seed, pos, chunk_size) ==
    IF "tavern_heart" \notin DOMAIN modules THEN <<<<>>, pos>>
    ELSE LET heart == modules["tavern_heart"]
             hx == FloorDiv(chunk_size - MapWidth(heart), 2)
             hy == FloorDiv(chunk_size - MapHeight(heart), 2)
             limb_count == RandInt(seed, pos, 1, 2)
         IN  PlaceLimbs(modules, seed, pos + 1, <<<<heart, hx, hy>>>>, hx, hy,
                        chunk_size, limb_count)

\* -------------------------------------------------------- WorldBiomeEngine
\* tcod's simplex noise at (x * 0.05, y * 0.05), normalised to [0, 1]: a
\* deterministic function of the noise seed and the point, here in percent.
NoiseSample(noise_seed, x, y) == RandomDraw(HashInts(<<noise_seed, x, y>>), 0) % 101

\* A range test that leaves the upper bound out.
InRange_UpperExclusive(v, range) == range[1] <= v /\ v < range[2]

InRange(v, range) == range[1] <= v /\ v <= range[2]

RECURSIVE FirstMatch(_, _, _, _)
FirstMatch(biomes, k, t_val, h_val) ==
    IF k > Len(biomes) THEN 0
    ELSE IF /\ biomes[k].id # "plains"
            /\ InRange(t_val, biomes[k].temp_range)
            /\ InRange(h_val, biomes[k].hum_range)
         THEN k
         ELSE FirstMatch(biomes, k + 1, t_val, h_val)

RECURSIVE FirstPlains(_, _)
FirstPlains(biomes, k) ==
    IF k > Len(biomes) THEN 0
    ELSE IF biomes[k].id = "plains" THEN k ELSE FirstPlains(biomes, k + 1)

\* What a call gives when an IndexError leaves it.
IndexError == [raised |-> "IndexError"]

\* The scans of get_biome for the samples t_val, h_val; self.biomes[0] of an
\* empty table raises.
BiomeFor(biomes, t_val, h_val) ==
    LET m == FirstMatch(biomes, 1, t_val, h_val)
        d == FirstPlains(biomes, 1)
    IN  IF m # 0 THEN biomes[m]
        ELSE IF d # 0 THEN biomes[d]
        ELSE IF biomes = <<>> THEN IndexError
        ELSE biomes[1]

GetBiome(biomes, seed, chunk_x, chunk_y) ==
    BiomeFor(biomes, NoiseSample(seed, chunk_x, chunk_y),
             NoiseSample(seed + 12345, chunk_x, chunk_y))

\* ------------------------------------------------------------ ChunkManager
\* A rumor; the rumors that are added are RumorPool[1], RumorPool[2], ... in
\* this order: a high one, a low one, one as high as the first.
Rumor(id, pol_type, significance) ==
    [id |-> id, pol_type |-> pol_type, significance |-> significance]

RumorPool ==
    [i \in 1..NumRumors |->
        Rumor(i,
              CASE i % 3 = 1 -> "prefab" [] i % 3 = 2 -> "dungeon" [] OTHER -> "encampment",
              CASE i % 4 = 1 -> 5 [] i % 4 = 2 -> 1 [] i % 4 = 3 -> 5 [] OTHER -> 3)]

\* list.sort(key=significance, reverse=True): stable, descending.
RECURSIVE InsertBySignificance(_, _)
InsertBySignificance(sorted, r) ==
    IF sorted = <<>> THEN <<r>>
    ELSE IF Head(sorted).significance >= r.significance
         THEN <<Head(sorted)>> \o InsertBySignificance(Tail(sorted), r)
         ELSE <<r>> \o sorted

RECURSIVE SortBySignificance_Ascending(_)
SortBySignificance_Ascending(q) ==
    IF q = <<>> THEN <<>>
    ELSE LET rest == SortBySignificance_Ascending(Tail(q))
             lower == SelectSeq(rest, LAMBDA r : r.significance < Head(q).significance)
             upper == SelectSeq(rest, LAMBDA r : r.significance >= Head(q).significance)
         IN  lower \o <<Head(q)>> \o upper

RECURSIVE SortFrom(_, _)
SortFrom(sorted, q) ==
    IF q = <<>> THEN sorted
    ELSE Only({SortFrom(s, Tail(q)) : s \in {InsertBySignificance(sorted, Head(q))}})

SortBySignificance(q) == SortFrom(<<>>, q)

\* get_next_rumor: <<returned rumor or None, queue afterwards>>
GetNextRumor(queue) ==
    IF queue = <<>> THEN <<None, queue>>
    ELSE Only({<<Some(Head(sorted)), Tail(sorted)>> : sorted \in {SortBySignificance(queue)}})

ChunkSeed(x, y, seed) == HashInts(<<x, y, seed>>)

\* The stochastic points of interest of a 4x4 region when there is no
\* territory manager: the list poi_chunks.
FallbackPoiChunks(seed, region_x, region_y) ==
    LET rs == HashInts(<<region_x, region_y, seed>>)
        poi_count == RandInt(rs, 0, 1, 2)
    IN  [k \in 1..poi_count |->
            <<region_x * 4 + RandInt(rs, 2 * k - 1, 0, 3),
              region_y * 4 + RandInt(rs, 2 * k, 0, 3)>>]

InSeq(v, q) == \E k \in 1..Len(q) : q[k] = v

IsPoiChunk(seed, salt, terr, ov, x, y) ==
    IF terr THEN GetNodeAt(seed, salt, ov, x, y) # None
    ELSE InSeq(<<x, y>>, FallbackPoiChunks(seed, FloorDiv(x, 4), FloorDiv(y, 4)))

\* range(a, mid + step, step) with step = 1 if mid > a else -1
RangeTo(a, mid) ==
    LET step == IF mid > a THEN 1 ELSE -1
        n == IF mid > a THEN mid - a + 1 ELSE a - mid + 1
    IN  [k \in 1..n |-> a + step * (k - 1)]

\* The stamping with a category of its own for a door cell.
TileOfChar_DoorCategory(char) ==
    IF char = "#" THEN "wall" ELSE IF char = "~" THEN "water"
    ELSE IF char = "+" THEN "door" ELSE "floor"

TileOfChar(char) ==
    IF char = "#" THEN "wall" ELSE IF char = "~" THEN "water" ELSE "floor"

\* The stamping loop of one module over the bespoke tile dict.
StampModule(tiles, mdef, mx, my) ==
    LET cells == {<<mx + lx, my + ly>> : lx \in 0..(MapWidth(mdef) - 1),
                                          ly \in 0..(MapHeight(mdef) - 1)}
    IN  [c \in DOMAIN tiles \cup cells |->
            IF c \in cells THEN TileOfChar(mdef.map[c[2] - my + 1][c[1] - mx + 1])
            ELSE tiles[c]]

\* The '+' cells of a module in the order the stamping loop meets them.
RECURSIVE DoorsFrom(_, _, _, _)
DoorsFrom(mdef, mx, my, k) ==
    IF k >= MapWidth(mdef) * MapHeight(mdef) THEN <<>>
    ELSE LET lx == k % MapWidth(mdef)
             ly == k \div MapWidth(mdef)
         IN  (IF mdef.map[ly + 1][lx + 1] = "+" THEN <<<<mx + lx, my + ly>>>> ELSE <<>>)
               \o DoorsFrom(mdef, mx, my, k + 1)

ModuleSpawns(mdef, mx, my) ==
    [k \in 1..Len(mdef.spawns) |->
        [mdef.spawns[k] EXCEPT !.lx = @ + mx, !.ly = @ + my]]

\* The road from a module's (last) door to the chunk center.
DoorRoad(door, mid) ==
    [k \in 1..Len(RangeTo(door[1], mid)) |-> <<RangeTo(door[1], mid)[k], door[2]>>]
      \o [k \in 1..Len(RangeTo(door[2], mid)) |-> <<mid, RangeTo(door[2], mid)[k]>>]

\* The loop over the planned modules, by what it builds.  bespoke_tiles after
\* the first k modules are stamped:
RECURSIVE StampedTiles(_, _)
StampedTiles(planned, k) ==
    IF k = 0 THEN <<>>
    ELSE Only({StampModule(tiles, planned[k][1], planned[k][2], planned[k][3]) :
                 tiles \in {StampedTiles(planned, k - 1)}})

\* spawns of the modules from the k-th on: each module's doors, then its own.
RECURSIVE StampedSpawns(_, _)
StampedSpawns(planned, k) ==
    IF k > Len(planned) THEN <<>>
    ELSE Only({[d \in 1..Len(doors) |->
                   [type |-> "door", id |-> "", lx |-> doors[d][1], ly |-> doors[d][2]]] :
                 doors \in {DoorsFrom(planned[k][1], planned[k][2], planned[k][3], 0)}})
           \o ModuleSpawns(planned[k][1], planned[k][2], planned[k][3])
           \o StampedSpawns(planned, k + 1)

\* roads of the modules from the k-th on: from each module's last door.
RECURSIVE StampedRoads(_, _, _)
StampedRoads(planned, k, mid) ==
    IF k > Len(planned) THEN <<>>
    ELSE Only({IF doors = <<>> THEN <<>> ELSE DoorRoad(doors[Len(doors)], mid) :
                 doors \in {DoorsFrom(planned[k][1], planned[k][2], planned[k][3], 0)}})
           \o StampedRoads(planned, k + 1, mid)

StampAll(planned, mid) ==
    [bespoke_tiles |-> StampedTiles(planned, Len(planned)),
     spawns |-> StampedSpawns(planned, 1),
     roads |-> StampedRoads(planned, 1, mid)]

\* The road a non-anchor chunk gets toward the neighbour at (dx, dy).
\* Runs toward the east and the south that include the cell past the edge.
NeighbourRoad_PastEdge(dx, dy, chunk_size) ==
    LET mid == FloorDiv(chunk_size, 2)
    IN  IF dx = -1 THEN [k \in 1..(mid + 1) |-> <<k - 1, mid>>]
        ELSE IF dx = 1 THEN [k \in 1..(chunk_size - mid + 1) |-> <<mid + k - 1, mid>>]
        ELSE IF dy = -1 THEN [k \in 1..(mid + 1) |-> <<mid, k - 1>>]
        ELSE [k \in 1..(chunk_size - mid + 1) |-> <<mid, mid + k - 1>>]

NeighbourRoad(dx, dy, chunk_size) ==
    LET mid == FloorDiv(chunk_size, 2)
    IN  IF dx = -1 THEN [k \in 1..(mid + 1) |-> <<k - 1, mid>>]
        ELSE IF dx = 1 THEN [k \in 1..(chunk_size - mid) |-> <<mid + k - 1, mid>>]
        ELSE IF dy = -1 THEN [k \in 1..(mid + 1) |-> <<mid, k - 1>>]
        ELSE [k \in 1..(chunk_size - mid) |-> <<mid, mid + k - 1>>]

NeighbourOrder == << <<-1, 0>>, <<1, 0>>, <<0, -1>>, <<0, 1>> >>

\* The neighbours loop.  The chunk's generator is drawn from only for a
\* neighbour that is an anchor, so the draw of the k-th neighbour sits at the
\* number of anchors among the neighbours before it.
NeighbourIsPoi(seed, salt, terr, ov, x, y, k) ==
    IsPoiChunk(seed, salt, terr, ov, x + NeighbourOrder[k][1], y + NeighbourOrder[k][2])

DrawsBefore(seed, salt, terr, ov, x, y, k) ==
    Cardinality({j \in 1..(k - 1) : NeighbourIsPoi(seed, salt, terr, ov, x, y, j)})

RECURSIVE RoadsFrom(_, _, _, _, _, _, _, _)
RoadsFrom(seed, salt, terr, ov, x, y, chunk_size, k) ==
    IF k > Len(NeighbourOrder) THEN <<>>
    ELSE (IF /\ NeighbourIsPoi(seed, salt, terr, ov, x, y, k)
             /\ RandPercent(ChunkSeed(x, y, seed),
                            DrawsBefore(seed, salt, terr, ov, x, y, k)) < 50
          THEN NeighbourRoad(NeighbourOrder[k][1], NeighbourOrder[k][2], chunk_size)
          ELSE <<>>)
           \o RoadsFrom(seed, salt, terr, ov, x, y, chunk_size, k + 1)

\* BSPDungeonGenerator(40, 40, seed).generate() as a chunk's dungeon_layout:
\* the layout is a function of the seed alone, so the seed stands for it.
DungeonLayout(seed) == [type |-> "dungeon", width |-> 40, height |-> 40, seed |-> seed]

\* f"structured_{pol_type}"
StructuredTerrain(pol_type) ==
    CASE pol_type = "dungeon" -> "structured_dungeon"
      [] pol_type = "prefab" -> "structured_prefab"
      [] OTHER -> "structured_encampment"

\* A chunk record.  keys holds the optional dict keys that are present
\* ("bespoke_tiles", "spawns", "roads", "dungeon_layout"); an absent key's
\* field keeps its empty value.
NewChunk(x, y, biome, population, faction_id) ==
    [coords |-> <<x, y>>, biome |-> biome, population |-> population, pol |-> None,
     terrain |-> "wilderness", faction_id |-> faction_id, is_spawned |-> FALSE,
     is_materialized |-> FALSE,
     keys |-> {}, bespoke_tiles |-> <<>>, spawns |-> <<>>, roads |-> <<>>,
     dungeon_layout |-> None]

PopulationOf(biome_id) ==
    IF biome_id \in DOMAIN tables.population THEN tables.population[biome_id] ELSE <<>>

\* The settlement branch of _generate_chunk: [chunk, planner_rng].
Settlement(chunk, plan, faction_id) ==
    Only({[chunk |-> [chunk EXCEPT !.terrain = "bespoke",
                                   !.faction_id = faction_id,
                                   !.keys = {"bespoke_tiles", "spawns", "roads"},
                                   !.bespoke_tiles = stamped.bespoke_tiles,
                                   !.spawns = stamped.spawns,
                                   !.roads = stamped.roads],
           planner_rng |-> plan[2]] :
            stamped \in {StampAll(plan[1], FloorDiv(CHUNK_SIZE, 2))}})

GenerateSettlement(chunk, seed, ppos, faction_id) ==
    Only({Settlement(chunk, plan, faction_id) :
            plan \in {PlanSettlement(tables.modules, seed, ppos, CHUNK_SIZE)}})

\* An encampment that also lays a floor tile beside the campfire.
GenerateEncampment_TwoTiles(chunk) ==
    LET mid == FloorDiv(CHUNK_SIZE, 2)
    IN  [chunk EXCEPT !.terrain = "wilderness",
                      !.keys = {"bespoke_tiles", "spawns", "roads"},
                      !.bespoke_tiles = (<<mid, mid>> :> "floor") @@ (<<mid + 1, mid>> :> "floor"),
                      !.spawns = <<[type |-> "prop", id |-> "campfire", lx |-> mid, ly |-> mid]>>,
                      !.roads = <<>>]

GenerateEncampment(chunk) ==
    LET mid == FloorDiv(CHUNK_SIZE, 2)
    IN  [chunk EXCEPT !.terrain = "wilderness",
                      !.keys = {"bespoke_tiles", "spawns", "roads"},
                      !.bespoke_tiles = (<<mid, mid>> :> "floor"),
                      !.spawns = <<[type |-> "prop", id |-> "campfire", lx |-> mid, ly |-> mid]>>,
                      !.roads = <<>>]

\* The rumor resolution without the pop: the rumor is bound and stays queued.
ResolveRumor_KeepsQueued(chunk, chunk_seed, ordered) ==
    [chunk |-> [chunk EXCEPT
                  !.pol = Some(Head(ordered)),
                  !.terrain = StructuredTerrain(Head(ordered).pol_type),
                  !.keys = IF Head(ordered).pol_type = "dungeon"
                           THEN @ \cup {"dungeon_layout"} ELSE @,
                  !.dungeon_layout = IF Head(ordered).pol_type = "dungeon"
                                     THEN Some(DungeonLayout(chunk_seed)) ELSE @],
     rumor_queue |-> ordered]

\* The rumor resolution of _generate_chunk with the queue in the order it is
\* popped from: [chunk, rumor_queue].
ResolveRumor(chunk, chunk_seed, ordered) ==
    [chunk |-> [chunk EXCEPT
                  !.pol = Some(Head(ordered)),
                  !.terrain = StructuredTerrain(Head(ordered).pol_type),
                  !.keys = IF Head(ordered).pol_type = "dungeon"
                           THEN @ \cup {"dungeon_layout"} ELSE @,
                  !.dungeon_layout = IF Head(ordered).pol_type = "dungeon"
                                     THEN Some(DungeonLayout(chunk_seed)) ELSE @],
     rumor_queue |-> Tail(ordered)]

\* The part of _generate_chunk after the point-of-interest dispatch: roads
\* toward anchor neighbours, then the rumor resolution: [chunk, rumor_queue].
GenerateWilderness(chunk, seed, salt, terr, ov, queue, x, y) ==
    LET with_roads == [chunk EXCEPT !.keys = {"roads"},
                          !.roads = RoadsFrom(seed, salt, terr, ov, x, y, CHUNK_SIZE, 1)]
    IN  IF /\ queue # <<>>
           /\ RandPercent(ChunkSeed(x, y, seed),
                  DrawsBefore(seed, salt, terr, ov, x, y, Len(NeighbourOrder) + 1)) < 10
        THEN Only({ResolveRumor(with_roads, ChunkSeed(x, y, seed), sorted) :
                     sorted \in {SortBySignificance(queue)}})
        ELSE [chunk |-> with_roads, rumor_queue |-> queue]

\* _generate_chunk once get_biome has returned: [chunk, rumor_queue, planner_rng]
GenerateChunkIn(biome, seed, salt, terr, ov, queue, ppos, x, y) ==
    LET chunk_seed == ChunkSeed(x, y, seed)
        faction_id == IF terr THEN GetControllingFaction(seed, salt, ov, x, y)
                      ELSE <<"warband", x, y>>
        chunk == NewChunk(x, y, biome, PopulationOf(biome.id), faction_id)
        territory_node == IF terr THEN GetNodeAt(seed, salt, ov, x, y) ELSE None
        poi_chunks == IF terr THEN <<>>
                      ELSE FallbackPoiChunks(seed, FloorDiv(x, 4), FloorDiv(y, 4))
        is_poi == territory_node # None \/ (~terr /\ InSeq(<<x, y>>, poi_chunks))
        poi_type == IF territory_node # None THEN territory_node[1].poi_type ELSE "settlement"
    IN  IF is_poi /\ poi_type = "settlement"
        THEN Only({[chunk |-> r.chunk, rumor_queue |-> queue, planner_rng |-> r.planner_rng] :
                     r \in {GenerateSettlement(chunk, seed, ppos,
                               IF territory_node # None THEN territory_node[1].faction_id
                               ELSE <<"village", poi_chunks[1][1], poi_chunks[1][2]>>)}})
        ELSE IF is_poi /\ poi_type = "dungeon"
        THEN [chunk |-> [chunk EXCEPT !.terrain = "structured_dungeon",
                                      !.keys = {"dungeon_layout"},
                                      !.dungeon_layout = Some(DungeonLayout(chunk_seed))],
              rumor_queue |-> queue, planner_rng |-> ppos]
        ELSE IF is_poi /\ poi_type = "encampment"
        THEN [chunk |-> GenerateEncampment(chunk), rumor_queue |-> queue, planner_rng |-> ppos]
        ELSE Only({[chunk |-> r.chunk, rumor_queue |-> r.rumor_queue, planner_rng |-> ppos] :
                     r \in {GenerateWilderness(chunk, seed, salt, terr, ov, queue, x, y)}})

\* _generate_chunk: [chunk, rumor_queue, planner_rng]; an exception of
\* get_biome leaves it before anything is written and is given as the chunk.
GenerateChunk(seed, salt, terr, ov, queue, ppos, x, y) ==
    Only({IF biome = IndexError
          THEN [chunk |-> IndexError, rumor_queue |-> queue, planner_rng |-> ppos]
          ELSE GenerateChunkIn(biome, seed, salt, terr, ov, queue, ppos, x, y) :
            biome \in {GetBiome(tables.biomes, seed, x, y)}})

\* get_chunk: [chunk, generated_chunks, rumor_queue, planner_rng, generated];
\* an exception of _generate_chunk stores nothing and is given as the chunk.
Raised(cache, g) ==
    [chunk |-> g.chunk, generated_chunks |-> cache, rumor_queue |-> g.rumor_queue,
     planner_rng |-> g.planner_rng, generated |-> FALSE]

Generated(cache, g, x, y) ==
    [chunk |-> g.chunk, generated_chunks |-> Put(cache, <<x, y>>, g.chunk),
     rumor_queue |-> g.rumor_queue, planner_rng |-> g.planner_rng, generated |-> TRUE]

GetChunk_NoCache(cache, seed, salt, terr, ov, queue, ppos, x, y) ==
    Only({IF g.chunk = IndexError THEN Raised(cache, g) ELSE Generated(cache, g, x, y) :
            g \in {GenerateChunk(seed, salt, terr, ov, queue, ppos, x, y)}})

GetChunk(cache, seed, salt, terr, ov, queue, ppos, x, y) ==
    IF <<x, y>> \in DOMAIN cache
    THEN [chunk |-> cache[<<x, y>>], generated_chunks |-> cache,
          rumor_queue |-> queue, planner_rng |-> ppos, generated |-> FALSE]
    ELSE Only({IF g.chunk = IndexError THEN Raised(cache, g) ELSE Generated(cache, g, x, y) :
                 g \in {GenerateChunk(seed, salt, terr, ov, queue, ppos, x, y)}})

\* tiles[local_y][local_x] of a dungeon layout: "wall" or "floor", a function
\* of the layout's seed and the cell.
DungeonTile(layout, lx, ly) ==
    IF RandomDraw(HashInts(<<layout.seed, lx, ly>>), 0) % 2 = 0 THEN "floor" ELSE "wall"

\* The biome-driven roll of get_tile for a global coordinate.
ProceduralTile(biome, seed, global_x, global_y) ==
    LET roll == RandPercent(HashInts(<<global_x, global_y, seed>>), 0)
    IN  IF roll < biome.water_density THEN "water"
        ELSE IF roll < biome.water_density + biome.tree_density THEN "tree"
        ELSE IF roll < biome.water_density + biome.tree_density + biome.rubble_density
             THEN "wall"
        ELSE IF roll < biome.water_density + biome.tree_density + biome.rubble_density
                         + biome.grass_density
             THEN "grass"
        ELSE "floor"

\* get_tile once the chunk is in hand.
TileOfChunk(chunk, seed, global_x, global_y) ==
    LET local_x == PyMod(global_x, CHUNK_SIZE)
        local_y == PyMod(global_y, CHUNK_SIZE)
    IN  IF chunk.terrain = "bespoke" /\ <<local_x, local_y>> \in DOMAIN chunk.bespoke_tiles
        THEN chunk.bespoke_tiles[<<local_x, local_y>>]
        ELSE IF "dungeon_layout" \in chunk.keys
                  /\ 0 <= local_y /\ local_y < chunk.dungeon_layout[1].height
                  /\ 0 <= local_x /\ local_x < chunk.dungeon_layout[1].width
        THEN DungeonTile(chunk.dungeon_layout[1], local_x, local_y)
        ELSE IF InSeq(<<local_x, local_y>>, chunk.roads) THEN "floor"
        ELSE ProceduralTile(chunk.biome, seed, global_x, global_y)

\* get_tile: the tile returned and what its get_chunk call did.
GetTile(cache, seed, salt, terr, ov, queue, ppos, global_x, global_y) ==
    Only({[tile |-> IF g.chunk = IndexError THEN IndexError
                    ELSE TileOfChunk(g.chunk, seed, global_x, global_y),
           chunk |-> g.chunk, generated_chunks |-> g.generated_chunks,
           rumor_queue |-> g.rumor_queue, planner_rng |-> g.planner_rng,
           generated |-> g.generated] :
            g \in {GetChunk(cache, seed, salt, terr, ov, queue, ppos,
                            FloorDiv(global_x, CHUNK_SIZE), FloorDiv(global_y, CHUNK_SIZE))}})

\* ------------------------------------------- the chunk manager specification
\* The anchor chunks looked at: with a territory manager the nodes of Regions,
\* without one the first stochastic point of interest of the 4x4 regions.
PoiAnchors(seed, salt, terr) ==
    IF terr THEN {Anchor(seed, salt, r) : r \in Regions}
    ELSE {FallbackPoiChunks(seed, r[1], r[2])[1] : r \in Regions}

\* The chunks calls are made for: each anchor, the chunk east of it and the
\* chunk south-east of it.
ChunkOffsets == {<<0, 0>>, <<1, 0>>, <<1, 1>>}

ChunkCoords(seed, salt, terr) ==
    {<<a[1] + o[1], a[2] + o[2]>> : a \in PoiAnchors(seed, salt, terr), o \in ChunkOffsets}

\* The local coordinate get_tile is asked for: the chunk's center.
TileLocals == {<<FloorDiv(CHUNK_SIZE, 2), FloorDiv(CHUNK_SIZE, 2)>>}

Init ==
    /\ LoopIdle
    /\ world_seed \in 1..MaxSeed
    /\ hash_salt = 0
    /\ has_territory \in BOOLEAN
    /\ overrides = <<>>
    /\ generated_chunks = <<>>
    /\ rumor_queue = <<>>
    /\ planner_rng = 0
    /\ last = NoCall
    /\ history = NoHistory
    /\ bsp = NoBsp

Count(f, k) == IF k \in DOMAIN f THEN f[k] ELSE 0

\* What the history keeps of a get_chunk call for coordinate c.
Observed(h, g, c) ==
    IF g.generated
    THEN [h EXCEPT !.gen_count = Put(@, c, Count(@, c) + 1),
                   !.first_gen = IF c \in DOMAIN @ THEN @ ELSE Put(@, c, g.chunk)]
    ELSE h

\* What is kept of the last get_chunk call, direct or through get_tile:
\* whether it ran _generate_chunk, and whether it ended in an exception.
ChunkCall(generated) ==
    [op |-> "get_chunk", args |-> <<>>, result |-> generated, raised |-> FALSE]

ChunkRaise == [op |-> "get_chunk", args |-> <<>>, result |-> FALSE, raised |-> TRUE]

ChunkCallOf(g) == IF g.chunk = IndexError THEN ChunkRaise ELSE ChunkCall(g.generated)

CallAddRumor ==
    \E i \in 1..NumRumors :
        /\ i = Len(history.added) + 1
        /\ rumor_queue' = Append(rumor_queue, RumorPool[i])
        /\ history' = [history EXCEPT !.added = Append(@, RumorPool[i])]
        /\ UNCHANGED <<loop_state, world_seed, hash_salt, has_territory, overrides, generated_chunks,
                       planner_rng, last, bsp>>

CallGetNextRumor ==
    \E r \in {GetNextRumor(rumor_queue)} :
        /\ rumor_queue' = r[2]
        /\ history' = IF r[1] = None THEN history
                      ELSE [history EXCEPT !.returned = @ \cup {r[1][1]}]
        /\ UNCHANGED <<loop_state, world_seed, hash_salt, has_territory, overrides, generated_chunks,
                       planner_rng, last, bsp>>

CallGetChunk ==
    \E c \in ChunkCoords(world_seed, hash_salt, has_territory) :
        \E g \in {GetChunk(generated_chunks, world_seed, hash_salt, has_territory, overrides,
                            rumor_queue, planner_rng, c[1], c[2])} :
            /\ generated_chunks' = g.generated_chunks
            /\ rumor_queue' = g.rumor_queue
            /\ planner_rng' = g.planner_rng
            /\ history' = Observed(history, g, c)
            /\ last' = ChunkCallOf(g)
            /\ UNCHANGED <<loop_state, world_seed, hash_salt, has_territory, overrides, bsp>>

\* get_tile for the local coordinate l of chunk c.
GetTileAt(c, l) ==
    \E g \in {GetTile(generated_chunks, world_seed, hash_salt, has_territory, overrides,
                       rumor_queue, planner_rng,
                       c[1] * CHUNK_SIZE + l[1], c[2] * CHUNK_SIZE + l[2])} :
        /\ generated_chunks' = g.generated_chunks
        /\ rumor_queue' = g.rumor_queue
        /\ planner_rng' = g.planner_rng
        /\ history' = Observed(history, g, c)
        /\ last' = ChunkCallOf(g)
        /\ UNCHANGED <<loop_state, world_seed, hash_salt, has_territory, overrides, bsp>>

CallGetTile ==
    \E c \in ChunkCoords(world_seed, hash_salt, has_territory), l \in TileLocals :
        GetTileAt(c, l)

Next == CallAddRumor \/ CallGetNextRumor \/ CallGetChunk \/ CallGetTile

Spec == Init /\ [][Next]_vars

\* ------------------------------------------------ the session specification
\* A new ChunkManager for the same world seed, as resume_session and the
\* tests construct one: an empty cache, an empty rumor queue and a settlement
\* planner whose generator is seeded anew.
RebuildChunkManager ==
    /\ history.rebuilds < MaxRebuilds
    /\ generated_chunks' = <<>>
    /\ rumor_queue' = <<>>
    /\ planner_rng' = 0
    /\ history' = [history EXCEPT !.rebuilds = @ + 1, !.gen_count = <<>>]
    /\ last' = NoCall
    /\ UNCHANGED <<loop_state, world_seed, hash_salt, has_territory, overrides, bsp>>

\* get_chunk and get_tile calls with no rumor ever queued, across rebuilds.
SessionNext == CallGetChunk \/ CallGetTile \/ RebuildChunkManager

SpecSession == Init /\ [][SessionNext]_vars

\* What the determinism contract compares of a chunk record.
Content(chunk) ==
    [terrain |-> chunk.terrain, bespoke_tiles |-> chunk.bespoke_tiles,
     roads |-> chunk.roads, spawns |-> chunk.spawns,
     dungeon_layout |-> chunk.dungeon_layout]

\* C2: with no rumor queued, every generation of a coordinate's chunk, after a
\* rebuild and whatever was generated before it, has the terrain, bespoke
\* tiles, roads, spawns and dungeon layout of its first generation.
C2_SameEveryGeneration ==
    \A c \in DOMAIN generated_chunks :
        Content(generated_chunks[c]) = Content(history.first_gen[c])

\* get_chunk and get_tile as they would answer in the current state.
ChunkNow(c) ==
    GetChunk(generated_chunks, world_seed, hash_salt, has_territory, overrides,
             rumor_queue, planner_rng, c[1], c[2])

TileNow(c, l) ==
    GetTile(generated_chunks, world_seed, hash_salt, has_territory, overrides,
            rumor_queue, planner_rng, c[1] * CHUNK_SIZE + l[1], c[2] * CHUNK_SIZE + l[2])

\* A call that leaves the cache, the rumor queue and the planner's generator
\* as they are and does not run _generate_chunk.
Untouched(g) ==
    /\ ~g.generated
    /\ g.generated_chunks = generated_chunks
    /\ g.rumor_queue = rumor_queue
    /\ g.planner_rng = planner_rng

C1_Cached ==
    /\ \A c \in DOMAIN history.gen_count : history.gen_count[c] <= 1
    /\ \A c \in DOMAIN generated_chunks :
        /\ generated_chunks[c] = history.first_gen[c]
        /\ Untouched(ChunkNow(c)) /\ ChunkNow(c).chunk = history.first_gen[c]
        /\ \A l \in TileLocals :
              Untouched(TileNow(c, l)) /\ TileNow(c, l).chunk = history.first_gen[c]

C1_CacheKept ==
    \A c \in DOMAIN generated_chunks :
        c \in DOMAIN generated_chunks' /\ generated_chunks'[c] = generated_chunks[c]

\* C1: in a sequence of get_chunk, get_tile and rumor calls every coordinate's
\* chunk is generated at most once; a get_chunk or get_tile for a cached
\* coordinate returns the record of the first generation and leaves the
\* cache, the rumor queue and the settlement planner's generator untouched,
\* and no step replaces a cached record.
C1_GeneratedAtMostOnce == []C1_Cached /\ [][C1_CacheKept]_vars

\* A call answered from the cache, for a settlement chunk and for a chunk that
\* resolved a rumor, while a rumor is still queued.
C1_Witness ==
    /\ last = ChunkCall(FALSE)
    /\ rumor_queue # <<>>
    /\ \E c \in DOMAIN generated_chunks : generated_chunks[c].terrain = "bespoke"
    /\ \E c \in DOMAIN generated_chunks : generated_chunks[c].pol # None

\* The rumors a step takes out of the queue.
Queued(q) == {q[k] : k \in 1..Len(q)}

AddedAt(r) == CHOOSE k \in 1..Len(history.added) : history.added[k] = r

BoundRumors(cache) == {cache[c].pol[1] : c \in {d \in DOMAIN cache : cache[d].pol # None}}

C3_Step ==
    \A t \in Queued(rumor_queue) \ Queued(rumor_queue') :
        /\ \A r \in Queued(rumor_queue) :
              \/ r.significance < t.significance
              \/ r.significance = t.significance /\ AddedAt(t) <= AddedAt(r)
        /\ \/ t \in history'.returned \ history.returned
           \/ t \in BoundRumors(generated_chunks') \ BoundRumors(generated_chunks)

\* C3: the rumor a step takes from the queue, whether get_next_rumor returns
\* it or a chunk generation binds it, has the highest significance of the
\* queued rumors, and among those of that significance was added first.
C3_HighestSignificanceFirst == [][C3_Step]_vars

\* A chunk bound a rumor that was added after a less significant rumor that is
\* still queued, and get_next_rumor has returned one as well.
C3_Witness ==
    /\ history.returned # {}
    /\ \E t \in BoundRumors(generated_chunks) : \E r \in Queued(rumor_queue) :
          AddedAt(r) < AddedAt(t) /\ r.significance < t.significance

\* C4: for every cached chunk that carries bespoke_tiles and every local
\* coordinate in that map, get_tile on the matching global coordinate gives
\* the override.
C4_BespokeOverrideWins ==
    \A c \in DOMAIN generated_chunks :
        "bespoke_tiles" \in generated_chunks[c].keys =>
            \A l \in DOMAIN generated_chunks[c].bespoke_tiles :
                TileNow(c, l).tile = generated_chunks[c].bespoke_tiles[l]

Places(r) ==
    Cardinality({k \in 1..Len(rumor_queue) : rumor_queue[k] = r})
    + (IF r \in history.returned THEN 1 ELSE 0)
    + Cardinality({c \in DOMAIN generated_chunks : generated_chunks[c].pol = Some(r)})

C10_OnePlace == \A k \in 1..Len(history.added) : Places(history.added[k]) = 1

C10_Step ==
    /\ \A c \in DOMAIN generated_chunks :
          generated_chunks[c].pol # None =>
              /\ c \in DOMAIN generated_chunks'
              /\ generated_chunks'[c].pol = generated_chunks[c].pol
    /\ \A r \in history'.returned \ history.returned :
          r \in Queued(rumor_queue) /\ r \notin Queued(rumor_queue')

\* C10: every added rumor is in exactly one place: once in the queue,
\* returned by get_next_rumor, or the payload of exactly one cached chunk; a
\* chunk's payload never changes and a returned rumor left the queue in the
\* step that returned it.
C10_RumorInOnePlace == []C10_OnePlace /\ [][C10_Step]_vars

\* All three places are in use at once.
C10_Witness ==
    /\ rumor_queue # <<>>
    /\ history.returned # {}
    /\ BoundRumors(generated_chunks) # {}
    /\ Len(history.added) = NumRumors

\* C12: the terrain classification of every cached chunk is one of wilderness,
\* bespoke, structured_dungeon, whatever rumors were queued and resolved.
C12_TerrainIsClassified ==
    \A c \in DOMAIN generated_chunks :
        generated_chunks[c].terrain \in {"wilderness", "bespoke", "structured_dungeon"}

\* The local coordinates get_tile is probed at: every bespoke cell, every
\* road cell and the chunk's diagonal.
TileProbes(chunk) ==
    DOMAIN chunk.bespoke_tiles
    \cup {chunk.roads[k] : k \in 1..Len(chunk.roads)}
    \cup {<<i, i>> : i \in 0..(CHUNK_SIZE - 1)}

\* C13: for every cached chunk, get_tile answers floor, wall, water, grass or
\* tree at every bespoke cell, every road cell and along the diagonal,
\* whichever layer supplies the answer.
C13_TileVocabulary ==
    \A c \in DOMAIN generated_chunks : \A l \in TileProbes(generated_chunks[c]) :
        TileNow(c, l).tile \in {"floor", "wall", "water", "grass", "tree"}

\* The cache holds a settlement chunk or an encampment, a dungeon chunk and a
\* chunk with a road, and get_tile was the last call.
C13_Witness ==
    /\ \E c \in DOMAIN generated_chunks : generated_chunks[c].bespoke_tiles # <<>>
    /\ \E c \in DOMAIN generated_chunks : "dungeon_layout" \in generated_chunks[c].keys
    /\ \E c \in DOMAIN generated_chunks :
          generated_chunks[c].terrain = "wilderness" /\ generated_chunks[c].roads # <<>>
    /\ last = ChunkCall(FALSE)

\* ------------------------------------------------ spawner and entity lifecycle
\* The archetypes of the entity blueprints the tables name (loaded data).
EntityTable == [Innkeeper |-> "NPC", wolf |-> "Skirmisher", bandit |-> "Standard"]

\* The archetype of the entity spawn_from_definition makes of a spawn entry.
ArchetypeOfSpawn(sdef) ==
    IF sdef.type = "npc"
    THEN (IF sdef.id \in DOMAIN EntityTable THEN EntityTable[sdef.id] ELSE "Standard")
    ELSE IF sdef.type \in {"door", "window"} THEN "Structure"
    ELSE "Item"

\* spawn_bespoke_chunk: [registry, chunk].  An entity is kept as the chunk it
\* stands in and its archetype.
SpawnBespokeChunk_ConsumesSpawns(reg, chunk) ==
    IF chunk.is_spawned THEN [registry |-> reg, chunk |-> chunk]
    ELSE [registry |-> reg \cup {<<chunk.coords, ArchetypeOfSpawn(chunk.spawns[k])>> :
                                    k \in 1..Len(chunk.spawns)},
          chunk |-> [chunk EXCEPT !.is_spawned = TRUE, !.spawns = <<>>]]

SpawnBespokeChunk(reg, chunk) ==
    IF chunk.is_spawned THEN [registry |-> reg, chunk |-> chunk]
    ELSE [registry |-> reg \cup {<<chunk.coords, ArchetypeOfSpawn(chunk.spawns[k])>> :
                                    k \in 1..Len(chunk.spawns)},
          chunk |-> [chunk EXCEPT !.is_spawned = TRUE]]

\* spawn_wilderness_chunk: [registry, chunk].  An empty population returns
\* before the flag is set.
SpawnWildernessChunk(reg, chunk) ==
    IF chunk.is_spawned \/ chunk.population = <<>> THEN [registry |-> reg, chunk |-> chunk]
    ELSE LET rng == HashInts(<<chunk.coords[1], chunk.coords[2], 12345>>)
             species == chunk.population[1 + RandInt(rng, 2, 0, Len(chunk.population) - 1)]
         IN  [registry |-> IF RandPercent(rng, 0) < 15
                           THEN reg \cup {<<chunk.coords, EntityTable[species]>>}
                           ELSE reg,
              chunk |-> [chunk EXCEPT !.is_spawned = TRUE]]

CULL_DISTANCE == 3
MATERIALIZATION_DISTANCE == 1

Abs(n) == IF n < 0 THEN -n ELSE n

ChunkDistance(a, b) == Max(Abs(a[1] - b[1]), Abs(a[2] - b[2]))

\* The entities manage_entity_lifecycle removes: those CULL_DISTANCE chunks or
\* more from the player's chunk.
Distant(reg, player) == {e \in reg : ChunkDistance(e[1], player) >= CULL_DISTANCE}

\* Of those, the ones serialized into virtual_entities: all but skirmishers
\* and minions (which carry nothing and are unhurt when they have only been
\* spawned).
Stored(reg, player) == {e \in Distant(reg, player) : e[2] \notin {"Skirmisher", "Minion"}}

\* virtual_entities after the cull: chunk key -> the entities stored for it.
CullInto(virt, reg, player) ==
    [k \in DOMAIN virt \cup {e[1] : e \in Stored(reg, player)} |->
        (IF k \in DOMAIN virt THEN virt[k] ELSE {})
        \cup {e[2] : e \in {d \in Stored(reg, player) : d[1] = k}}]

\* The chunks the materialization loop visits, in its order (dy outer, dx inner).
Nearby(player) ==
    [k \in 1..((2 * MATERIALIZATION_DISTANCE + 1) * (2 * MATERIALIZATION_DISTANCE + 1)) |->
        <<player[1] + ((k - 1) % (2 * MATERIALIZATION_DISTANCE + 1)) - MATERIALIZATION_DISTANCE,
          player[2] + ((k - 1) \div (2 * MATERIALIZATION_DISTANCE + 1)) - MATERIALIZATION_DISTANCE>>]

\* What one pass of the materialization loop does to a chunk in hand:
\* [registry, virtual_entities, chunk].
MaterializeChunk(reg, virt, chunk) ==
    IF chunk.is_materialized THEN [registry |-> reg, virtual_entities |-> virt, chunk |-> chunk]
    ELSE IF chunk.coords \in DOMAIN virt
    THEN [registry |-> reg \cup {<<chunk.coords, a>> : a \in virt[chunk.coords]},
          virtual_entities |-> [k \in DOMAIN virt \ {chunk.coords} |-> virt[k]],
          chunk |-> [chunk EXCEPT !.is_materialized = TRUE]]
    ELSE Only({[registry |-> sp.registry, virtual_entities |-> virt,
                chunk |-> [sp.chunk EXCEPT !.is_materialized = TRUE]] :
                 sp \in {IF chunk.terrain = "bespoke" THEN SpawnBespokeChunk(reg, chunk)
                         ELSE SpawnWildernessChunk(reg, chunk)}})

\* The state the materialization loop carries from chunk to chunk.
AfterVisit(st, g, mat, c) ==
    [generated_chunks |-> Put(g.generated_chunks, c, mat.chunk),
     rumor_queue |-> g.rumor_queue, planner_rng |-> g.planner_rng,
     registry |-> mat.registry, virtual_entities |-> mat.virtual_entities,
     history |-> Observed(st.history, g, c)]

VisitChunk(st, seed, salt, terr, ov, c) ==
    Only({Only({AfterVisit(st, g, mat, c) :
                  mat \in {MaterializeChunk(st.registry, st.virtual_entities, g.chunk)}}) :
            g \in {GetChunk(st.generated_chunks, seed, salt, terr, ov,
                            st.rumor_queue, st.planner_rng, c[1], c[2])}})

RECURSIVE MaterializeFrom(_, _, _, _, _, _, _)
MaterializeFrom(st, seed, salt, terr, ov, nearby, k) ==
    IF k > Len(nearby) THEN st
    ELSE Only({MaterializeFrom(next, seed, salt, terr, ov, nearby, k + 1) :
                 next \in {VisitChunk(st, seed, salt, terr, ov, nearby[k])}})

\* manage_entity_lifecycle with the player in chunk `player`.
ManageEntityLifecycle(st, seed, salt, terr, ov, player) ==
    MaterializeFrom([st EXCEPT !.registry = st.registry \ Distant(st.registry, player),
                               !.virtual_entities =
                                   CullInto(st.virtual_entities, st.registry, player)],
                    seed, salt, terr, ov, Nearby(player), 1)

\* ------------------------------------------------ the lifecycle specification
\* The chunks the player stands in when manage_entity_lifecycle is called: the
\* anchor chunks.
PlayerChunks(seed, salt, terr) == PoiAnchors(seed, salt, terr)

LoopNow ==
    [generated_chunks |-> generated_chunks, rumor_queue |-> rumor_queue,
     planner_rng |-> planner_rng, registry |-> registry,
     virtual_entities |-> virtual_entities, history |-> history]

CallManageEntityLifecycle ==
    \E player \in PlayerChunks(world_seed, hash_salt, has_territory) :
        \E st \in {ManageEntityLifecycle(LoopNow, world_seed, hash_salt, has_territory,
                                         overrides, player)} :
            /\ generated_chunks' = st.generated_chunks
            /\ rumor_queue' = st.rumor_queue
            /\ planner_rng' = st.planner_rng
            /\ registry' = st.registry
            /\ virtual_entities' = st.virtual_entities
            /\ history' = st.history
            /\ UNCHANGED <<world_seed, hash_salt, has_territory, overrides, last, bsp,
                           snapshot, threads, tables>>

\* capture_node on the anchor chunk of region (0, 0) while the world is in use.
CallCaptureAnchor ==
    /\ has_territory
    /\ CaptureNodeAt(Anchor(world_seed, hash_salt, <<0, 0>>), FactionName(1))

\* get_tile (and through it get_chunk) for the center of an anchor chunk.
CallGetAnchorTile ==
    \E c \in PlayerChunks(world_seed, hash_salt, has_territory), l \in TileLocals :
        GetTileAt(c, l)

\* The simulation loop builds its ChunkManager with a TerritoryManager.
LifecycleInit == Init /\ has_territory

LifecycleNext ==
    \/ CallManageEntityLifecycle
    \/ CallCaptureAnchor
    \/ CallGetAnchorTile
    \/ CallAddRumor
    \/ CallGetNextRumor

SpecLifecycle == LifecycleInit /\ [][LifecycleNext]_vars

\* A cached record with its two runtime flags as they were in `old`.
WithFlagsOf(chunk, old) ==
    [chunk EXCEPT !.is_spawned = old.is_spawned, !.is_materialized = old.is_materialized]

C11_Step ==
    \A c \in DOMAIN generated_chunks :
        /\ c \in DOMAIN generated_chunks'
        /\ WithFlagsOf(generated_chunks'[c], generated_chunks[c]) = generated_chunks[c]

\* C11: no step of get_chunk, get_tile, add_rumor, get_next_rumor,
\* capture_node or manage_entity_lifecycle (with the spawners it calls) drops
\* a cached record or changes anything in it but is_spawned and
\* is_materialized: terrain, biome, bespoke tiles, dungeon layout, roads and
\* rumor payload stay as generated.
C11_CachedRecordFrozen == [][C11_Step]_vars

\* Spawned and materialized records of a settlement and of a rumor chunk, a
\* captured node, and entities stored by the cull.
C11_Witness ==
    /\ \E c \in DOMAIN generated_chunks :
          /\ generated_chunks[c].terrain = "bespoke"
          /\ generated_chunks[c].is_spawned /\ generated_chunks[c].is_materialized
    /\ \E c \in DOMAIN generated_chunks :
          generated_chunks[c].pol # None /\ generated_chunks[c].is_materialized
    /\ overrides # <<>>
    /\ DOMAIN virtual_entities # {}

\* C14: a TerritoryManager built with the same world seed in another process
\* run (any string-hash salt) generates, for every macro-region looked at, the
\* node this process's manager generates: same id, anchor, type and faction.
C14_SameNodeInEveryProcess ==
    \A salt \in 0..MaxSalt : \A r \in Regions :
        GenerateNodeForRegion(world_seed, salt, r[1], r[2])
            = GenerateNodeForRegion(world_seed, hash_salt, r[1], r[2])

\* ------------------------------------------------ the planner specification
\* Module tables a planner is built with: the loaded one, one with larger
\* limbs, one with the heart only, and none.
LargeLimbs ==
    [ModuleTable EXCEPT
        !.small_room.map = << <<"#", "#", "#", "#">>,
                              <<"+", ".", ".", "#">>,
                              <<"#", "#", "#", "#">> >>,
        !.garden_unit.map = << <<"~", "~", ".", ".", ".">>,
                               <<"~", "~", ".", ".", ".">> >>]

ModuleTables ==
    {ModuleTable, LargeLimbs, [k \in {"tavern_heart"} |-> ModuleTable[k]], <<>>}

\* The chunk_size arguments of plan_settlement.
PlannerChunkSizes == {CHUNK_SIZE, FloorDiv(CHUNK_SIZE, 2)}

PlannerInit ==
    /\ world_seed \in 1..MaxSeed
    /\ hash_salt = 0
    /\ has_territory = FALSE
    /\ overrides = <<>>
    /\ generated_chunks = <<>>
    /\ rumor_queue = <<>>
    /\ planner_rng = 0
    /\ last = NoCall
    /\ history = NoHistory
    /\ bsp = NoBsp
    /\ registry = {}
    /\ virtual_entities = <<>>
    /\ snapshot = None
    /\ threads = <<>>
    /\ \E m \in ModuleTables : tables = [LoadedTables EXCEPT !.modules = m]

CallPlanSettlement ==
    /\ planner_rng < MaxPlannerDraws
    /\ \E chunk_size \in PlannerChunkSizes :
        \E r \in {PlanSettlement(tables.modules, world_seed, planner_rng, chunk_size)} :
            /\ last' = [op |-> "plan_settlement", args |-> <<chunk_size>>, result |-> r[1]]
            /\ planner_rng' = r[2]
            /\ UNCHANGED <<world_seed, hash_salt, has_territory, overrides, generated_chunks,
                           rumor_queue, history, bsp, loop_state>>

PlannerNext == CallPlanSettlement

SpecPlanner == PlannerInit /\ [][PlannerNext]_vars

\* The cells of a placement's bounding rectangle.
PlacedCells(p) ==
    (p[2]..(p[2] + MapWidth(p[1]) - 1)) \X (p[3]..(p[3] + MapHeight(p[1]) - 1))

\* C15: in the list plan_settlement returned, no two placements' bounding
\* rectangles share a cell, and every limb (every placement after the heart)
\* lies inside the chunk on both axes.
C15_PlacementsDisjointAndInside ==
    last.op = "plan_settlement" =>
        /\ \A i \in 1..Len(last.result) : \A j \in 1..Len(last.result) :
              i < j => PlacedCells(last.result[i]) \cap PlacedCells(last.result[j]) = {}
        /\ \A i \in 2..Len(last.result) :
              LET p == last.result[i]
              IN  /\ 0 <= p[2] /\ p[2] + MapWidth(p[1]) <= last.args[1]
                  /\ 0 <= p[3] /\ p[3] + MapHeight(p[1]) <= last.args[1]

\* A plan for a half-size chunk with the heart and two accepted limbs, one of
\* them placed above or left of the heart.
C15_Witness ==
    /\ last.op = "plan_settlement"
    /\ last.args[1] < CHUNK_SIZE
    /\ Len(last.result) = 3
    /\ \E i \in 2..3 : last.result[i][2] < last.result[1][2]
                       \/ last.result[i][3] < last.result[1][3]

\* ------------------------------------------------- the tables specification
\* What the loaders give when a data file is absent: no biome, no module, no
\* population entry.
AbsentTables == [modules |-> <<>>, biomes |-> <<>>, population |-> <<>>]

\* Every combination of a loaded and an absent table.
TableChoices ==
    {[modules |-> m, biomes |-> b, population |-> p] :
        m \in {LoadedTables.modules, AbsentTables.modules},
        b \in {LoadedTables.biomes, AbsentTables.biomes},
        p \in {LoadedTables.population, AbsentTables.population}}

TablesInit ==
    /\ tables \in TableChoices
    /\ registry = {}
    /\ virtual_entities = <<>>
    /\ snapshot = None
    /\ threads = <<>>
    /\ world_seed \in 1..MaxSeed
    /\ hash_salt = 0
    /\ has_territory \in BOOLEAN
    /\ overrides = <<>>
    /\ generated_chunks = <<>>
    /\ rumor_queue = <<>>
    /\ planner_rng = 0
    /\ last = NoCall
    /\ history = NoHistory
    /\ bsp = NoBsp

TablesNext == CallGetChunk \/ CallGetTile

SpecTables == TablesInit /\ [][TablesNext]_vars

\* C16: whichever of the biome, module and population tables is absent,
\* no get_chunk call ends in an exception.
C16_NoExceptionOnMissingTables ==
    last.op = "get_chunk" => ~last.raised

\* Without a module table or a population table every call completes.
C16_BiomesPresentCompletes ==
    (last.op = "get_chunk" /\ tables.biomes # <<>>) => ~last.raised

\* A settlement chunk generated without a module table: nothing is stamped.
C16_EmptyPlanReached ==
    /\ tables.modules = <<>>
    /\ \E k \in DOMAIN generated_chunks :
          /\ generated_chunks[k].terrain = "bespoke"
          /\ generated_chunks[k].bespoke_tiles = <<>>

\* ------------------------------------------------------- save and resume
\* str(n) of an int, a string being kept as the sequence of its characters.
DigitChars == <<"0", "1", "2", "3", "4", "5", "6", "7", "8", "9">>

RECURSIVE FormatNat(_)
FormatNat(n) ==
    IF n < 10 THEN <<DigitChars[n + 1]>>
    ELSE Append(FormatNat(n \div 10), DigitChars[(n % 10) + 1])

FormatInt(n) == IF n < 0 THEN <<"-">> \o FormatNat(0 - n) ELSE FormatNat(n)

\* f"{cx}_{cy}"
FormatKey(c) == FormatInt(c[1]) \o <<"_">> \o FormatInt(c[2])

\* key.split("_"): the pieces between the separators.
RECURSIVE SplitFrom(_, _, _, _)
SplitFrom(str, i, piece, pieces) ==
    IF i > Len(str) THEN Append(pieces, piece)
    ELSE IF str[i] = "_" THEN SplitFrom(str, i + 1, <<>>, Append(pieces, piece))
    ELSE SplitFrom(str, i + 1, Append(piece, str[i]), pieces)

Split(str) == SplitFrom(str, 1, <<>>, <<>>)

\* int(piece) of an optional sign followed by decimal digits.
DigitOf(ch) == CHOOSE d \in 0..9 : DigitChars[d + 1] = ch

RECURSIVE ParseNat(_, _, _)
ParseNat(str, i, acc) ==
    IF i > Len(str) THEN acc ELSE ParseNat(str, i + 1, acc * 10 + DigitOf(str[i]))

ParseInt(str) ==
    IF str[1] = "-" THEN 0 - ParseNat(str, 2, 0) ELSE ParseNat(str, 1, 0)

\* cx, cy = map(int, key.split("_"))
ParseKey(key) == <<ParseInt(Split(key)[1]), ParseInt(Split(key)[2])>>

\* The entities save_session writes: all but skirmishers and minions.
SavedEntities(reg) == {e \in reg : e[2] \notin {"Skirmisher", "Minion"}}

\* The snapshot file save_session writes.
Snapshot(seed, terr, ov, virt, reg) ==
    [world_seed |-> seed,
     territory_overrides |->
        IF terr
        THEN [k \in {FormatKey(c) : c \in DOMAIN ov} |->
                 [faction_id |-> ov[ParseKey(k)].faction_id,
                  poi_type |-> ov[ParseKey(k)].poi_type]]
        ELSE <<>>,
     virtual_entities |-> [k \in {FormatKey(c) : c \in DOMAIN virt} |-> virt[ParseKey(k)]],
     entities |-> SavedEntities(reg)]

\* The override table resume_session builds from the snapshot.
RestoredOverrides(tdata) ==
    [c \in {ParseKey(k) : k \in DOMAIN tdata} |->
        TerritoryNode(<<"node", FloorDiv(c[1], MACRO_REGION_SIZE),
                                FloorDiv(c[2], MACRO_REGION_SIZE)>>,
                      c[1], c[2], tdata[FormatKey(c)].poi_type, tdata[FormatKey(c)].faction_id)]

RestoredVirtual(v_data) ==
    [c \in {ParseKey(k) : k \in DOMAIN v_data} |-> v_data[FormatKey(c)]]

\* ------------------------------------------------- the resume specification
\* The world at the time of a save, kept for comparison.
WorldNow ==
    [world_seed |-> world_seed, hash_salt |-> hash_salt, overrides |-> overrides,
     rumor_queue |-> rumor_queue]

SaveSession ==
    /\ snapshot' = Some(Snapshot(world_seed, has_territory, overrides, virtual_entities,
                                 registry))
    /\ history' = [history EXCEPT !.saved = Some(WorldNow)]
    /\ last' = [op |-> "save_session", args |-> <<>>, result |-> TRUE]
    /\ UNCHANGED <<world_seed, hash_salt, has_territory, overrides, generated_chunks,
                   rumor_queue, planner_rng, bsp, registry, virtual_entities, threads,
                   tables>>

\* resume_session in a process whose hash salt is salt: with no snapshot file
\* it raises FileNotFoundError; with one it builds a new TerritoryManager and
\* a new ChunkManager.
ResumeSessionIn(salt) ==
    IF snapshot = None
    THEN /\ last' = [op |-> "resume_session", args |-> <<>>, result |-> FALSE]
         /\ UNCHANGED <<world_seed, hash_salt, has_territory, overrides, generated_chunks,
                        rumor_queue, planner_rng, history, bsp, loop_state>>
    ELSE /\ hash_salt' = salt
         /\ world_seed' = snapshot[1].world_seed
         /\ has_territory' = TRUE
         /\ overrides' = RestoredOverrides(snapshot[1].territory_overrides)
         /\ generated_chunks' = <<>>
         /\ rumor_queue' = <<>>
         /\ planner_rng' = 0
         /\ virtual_entities' = RestoredVirtual(snapshot[1].virtual_entities)
         /\ registry' = snapshot[1].entities
         /\ last' = [op |-> "resume_session", args |-> <<>>, result |-> TRUE]
         /\ UNCHANGED <<history, bsp, snapshot, threads, tables>>

\* resume_session called in the process that saved.
ResumeSession == \E salt \in {hash_salt} : ResumeSessionIn(salt)

\* The program is started again and resumes: a new process has its own hash
\* salt, and what its new SimulationLoop held is replaced by resume_session.
RestartAndResume ==
    /\ snapshot # None
    /\ \E salt \in 0..MaxSalt : ResumeSessionIn(salt)

\* Before the save: capture_node at the anchor of a region by one of two
\* factions, and add_rumor.
CaptureBeforeSave ==
    /\ snapshot = None
    /\ \E r \in Regions, i \in 1..2 :
          CaptureNodeAt(Anchor(world_seed, hash_salt, r), FactionName(i))

AddRumorBeforeSave == snapshot = None /\ CallAddRumor

ResumeInit == TerritoryInit

ResumeNext ==
    \/ CaptureBeforeSave
    \/ AddRumorBeforeSave
    \/ SaveSession
    \/ ResumeSession
    \/ RestartAndResume

SpecResume == ResumeInit /\ [][ResumeNext]_vars

\* The state a completed resume_session has just left, with the world it
\* was saved from.
Resumed == last.op = "resume_session" /\ last.result

SameTerritoryAnswers(w) ==
    \A c \in AllRegionCoords :
        /\ GetNodeAt(world_seed, hash_salt, overrides, c[1], c[2])
             = GetNodeAt(w.world_seed, w.hash_salt, w.overrides, c[1], c[2])
        /\ GetControllingFaction(world_seed, hash_salt, overrides, c[1], c[2])
             = GetControllingFaction(w.world_seed, w.hash_salt, w.overrides, c[1], c[2])

\* C17: after save_session followed by resume_session, get_node_at and
\* get_controlling_faction answer for every coordinate as they did at the
\* time of the save.
C17_TerritoryAnswersRestored ==
    Resumed => SameTerritoryAnswers(history.saved[1])

\* Within one process (one hash salt) the answers are restored.
C17_RestoredInSameProcess ==
    (Resumed /\ hash_salt = history.saved[1].hash_salt)
        => SameTerritoryAnswers(history.saved[1])

\* The override table itself comes back whatever the process.
C17_OverrideTableRestored ==
    Resumed => overrides = history.saved[1].overrides

\* C18: after save_session followed by resume_session, the rumor queue holds
\* the rumors it held at the time of the save.
C18_RumorQueueRestored ==
    Resumed => rumor_queue = history.saved[1].rumor_queue

\* --------------------------------------------- concurrent get_chunk callers
\* get_chunk has no lock.  A caller stands before the call ("idle"), after the
\* membership test that missed ("missed"), after _generate_chunk returned with
\* the record still in hand ("generated"), or after the call ("done").
IdleCaller == [pc |-> "idle", key |-> <<>>, missed |-> FALSE, chunk |-> <<>>]

\* The right-hand side of line 297 for a caller that saw the miss and tests
\* the cache once more before generating: [chunk, rumor_queue, planner_rng,
\* generated].
MissedChunk_ChecksAgain(cache, seed, salt, terr, ov, queue, ppos, x, y) ==
    IF <<x, y>> \in DOMAIN cache
    THEN [chunk |-> cache[<<x, y>>], rumor_queue |-> queue, planner_rng |-> ppos,
          generated |-> FALSE]
    ELSE Only({[chunk |-> g.chunk, rumor_queue |-> g.rumor_queue,
                planner_rng |-> g.planner_rng, generated |-> g.chunk # IndexError] :
                 g \in {GenerateChunk(seed, salt, terr, ov, queue, ppos, x, y)}})

\* The right-hand side of line 297 for a caller that saw the miss:
\* _generate_chunk runs whatever the cache holds by now.
MissedChunk(cache, seed, salt, terr, ov, queue, ppos, x, y) ==
    Only({[chunk |-> g.chunk, rumor_queue |-> g.rumor_queue,
           planner_rng |-> g.planner_rng, generated |-> g.chunk # IndexError] :
            g \in {GenerateChunk(seed, salt, terr, ov, queue, ppos, x, y)}})

Callers == 1..NumCallers

\* The chunks the callers ask for: the chunk east of each anchor.
RaceCoords(seed, salt, terr) ==
    {<<a[1] + 1, a[2]>> : a \in PoiAnchors(seed, salt, terr)}

RaceInit ==
    /\ tables = LoadedTables
    /\ registry = {}
    /\ virtual_entities = <<>>
    /\ snapshot = None
    /\ threads = [t \in Callers |-> IdleCaller]
    /\ world_seed \in 1..MaxSeed
    /\ hash_salt = 0
    /\ has_territory \in BOOLEAN
    /\ overrides = <<>>
    /\ generated_chunks = <<>>
    /\ rumor_queue = <<>>
    /\ planner_rng = 0
    /\ last = NoCall
    /\ history = NoHistory
    /\ bsp = NoBsp

\* add_rumor, before any caller has entered get_chunk.
AddRumorBeforeCalls ==
    /\ \A t \in Callers : threads[t].pc = "idle"
    /\ CallAddRumor

\* Lines 296-297, the membership test: a hit returns the cached record.
CallerTests ==
    \E t \in Callers, c \in RaceCoords(world_seed, hash_salt, has_territory) :
        /\ threads[t].pc = "idle"
        /\ threads' = [threads EXCEPT ![t] =
              IF c \in DOMAIN generated_chunks
              THEN [pc |-> "done", key |-> c, missed |-> FALSE, chunk |-> generated_chunks[c]]
              ELSE [pc |-> "missed", key |-> c, missed |-> TRUE, chunk |-> <<>>]]
        /\ UNCHANGED <<world_seed, hash_salt, has_territory, overrides, generated_chunks,
                       rumor_queue, planner_rng, last, history, bsp, registry,
                       virtual_entities, snapshot, tables>>

\* Line 297, the call of _generate_chunk: the record is in the caller's hand.
CallerGenerates ==
    \E t \in Callers :
        /\ threads[t].pc = "missed"
        /\ \E g \in {MissedChunk(generated_chunks, world_seed, hash_salt, has_territory,
                                 overrides, rumor_queue, planner_rng,
                                 threads[t].key[1], threads[t].key[2])} :
              /\ rumor_queue' = g.rumor_queue
              /\ planner_rng' = g.planner_rng
              /\ history' = Observed(history, g, threads[t].key)
              /\ threads' = [threads EXCEPT ![t].pc = "generated", ![t].chunk = g.chunk]
        /\ UNCHANGED <<world_seed, hash_salt, has_territory, overrides, generated_chunks,
                       last, bsp, registry, virtual_entities, snapshot, tables>>

\* Line 297, the assignment into the cache, and the return.
CallerStores ==
    \E t \in Callers :
        /\ threads[t].pc = "generated"
        /\ generated_chunks' =
              IF threads[t].chunk = IndexError THEN generated_chunks
              ELSE Put(generated_chunks, threads[t].key, threads[t].chunk)
        /\ threads' = [threads EXCEPT ![t].pc = "done"]
        /\ UNCHANGED <<world_seed, hash_salt, has_territory, overrides, rumor_queue,
                       planner_rng, last, history, bsp, registry, virtual_entities,
                       snapshot, tables>>

RaceNext == AddRumorBeforeCalls \/ CallerTests \/ CallerGenerates \/ CallerStores

SpecRace == RaceInit /\ [][RaceNext]_vars

\* The callers that asked for c, saw the miss, and have returned.
MissedAndDone(c) ==
    {t \in Callers : threads[t].key = c /\ threads[t].missed /\ threads[t].pc = "done"}

\* C19: when two (or more) callers asked for the same uncached coordinate,
\* all saw the miss and all have returned, _generate_chunk ran once for
\* each of them and the cache holds the record of just one of them.
C19_RaceGeneratesTwice ==
    \A c \in RaceCoords(world_seed, hash_salt, has_territory) :
        (/\ Cardinality(MissedAndDone(c)) >= 2
         /\ \A t \in Callers : threads[t].pc = "done")
            => /\ Count(history.gen_count, c) = Cardinality(MissedAndDone(c))
               /\ c \in DOMAIN generated_chunks
               /\ \E t \in MissedAndDone(c) : generated_chunks[c] = threads[t].chunk

\* Two callers raced for one coordinate and each popped a rumor for it: two
\* rumors have left the queue and the two records differ.
C19_Witness ==
    \E c \in RaceCoords(world_seed, hash_salt, has_territory) :
        \E t1 \in MissedAndDone(c), t2 \in MissedAndDone(c) :
            /\ t1 # t2
            /\ threads[t1].chunk.pol # None
            /\ threads[t2].chunk.pol # None
            /\ threads[t1].chunk # threads[t2].chunk
            /\ Len(rumor_queue) = Len(history.added) - 2

\* -------------------------------------------------- the biome specification
\* Biome tables a WorldBiomeEngine is built with: the loaded one, the loaded
\* one in reverse order, one without plains, plains alone, plains twice
\* around a biome, and none.
BiomeTables ==
    {BiomeTable,
     <<BiomeTable[3], BiomeTable[2], BiomeTable[1]>>,
     <<BiomeTable[3], BiomeTable[1]>>,
     <<BiomeTable[2]>>,
     <<BiomeTable[2], BiomeTable[1], [BiomeTable[2] EXCEPT !.water_density = 0]>>,
     <<>>}

\* The normalized noise samples tried, in percent: the table's range bounds
\* and their neighbours.
Samples == {0, 29, 30, 40, 41, 59, 60, 80, 81, 100}

BiomeInit ==
    /\ \E b \in BiomeTables : tables = [LoadedTables EXCEPT !.biomes = b]
    /\ registry = {}
    /\ virtual_entities = <<>>
    /\ snapshot = None
    /\ threads = <<>>
    /\ world_seed \in 1..MaxSeed
    /\ hash_salt = 0
    /\ has_territory = FALSE
    /\ overrides = <<>>
    /\ generated_chunks = <<>>
    /\ rumor_queue = <<>>
    /\ planner_rng = 0
    /\ last = NoCall
    /\ history = NoHistory
    /\ bsp = NoBsp

\* get_biome at a chunk whose noise samples are t_val and h_val.
CallGetBiome ==
    \E t_val \in Samples, h_val \in Samples :
        /\ last' = [op |-> "get_biome", args |-> <<t_val, h_val>>,
                    result |-> BiomeFor(tables.biomes, t_val, h_val)]
        /\ UNCHANGED <<world_seed, hash_salt, has_territory, overrides, generated_chunks,
                       rumor_queue, planner_rng, history, bsp, loop_state>>

BiomeNext == CallGetBiome

SpecBiome == BiomeInit /\ [][BiomeNext]_vars

\* The positions of the table's entries, other than plains, whose two ranges
\* contain the samples of the last call; the positions of plains.
Matching ==
    {k \in 1..Len(tables.biomes) :
        /\ tables.biomes[k].id # "plains"
        /\ tables.biomes[k].temp_range[1] <= last.args[1]
        /\ last.args[1] <= tables.biomes[k].temp_range[2]
        /\ tables.biomes[k].hum_range[1] <= last.args[2]
        /\ last.args[2] <= tables.biomes[k].hum_range[2]}

PlainsAt == {k \in 1..Len(tables.biomes) : tables.biomes[k].id = "plains"}

Lowest(S) == CHOOSE k \in S : \A j \in S : k <= j

C20_FallbackToFirstReached ==
    /\ last.op = "get_biome"
    /\ tables.biomes # <<>>
    /\ Matching = {}
    /\ PlainsAt = {}
    /\ last.result = tables.biomes[1]

\* ----------------------------------------------- the dispatch specification
\* A world with a territory manager: rumors are added and chunks generated.
DispatchInit == Init /\ has_territory

DispatchNext == CallAddRumor \/ CallGetChunk

SpecDispatch == DispatchInit /\ [][DispatchNext]_vars

\* The coordinates a step has added to the cache.
NewlyCached == (DOMAIN generated_chunks') \ (DOMAIN generated_chunks)

\* What the record of an anchor chunk of each type holds.
DispatchedAs(chunk, poi_type) ==
    LET mid == FloorDiv(CHUNK_SIZE, 2)
    IN  /\ poi_type = "settlement" =>
              /\ chunk.terrain = "bespoke"
              /\ chunk.keys = {"bespoke_tiles", "spawns", "roads"}
        /\ poi_type = "dungeon" =>
              /\ chunk.terrain = "structured_dungeon"
              /\ chunk.keys = {"dungeon_layout"}
              /\ chunk.dungeon_layout # None
        /\ poi_type = "encampment" =>
              /\ chunk.terrain = "wilderness"
              /\ DOMAIN chunk.bespoke_tiles = {<<mid, mid>>}
              /\ Len(chunk.spawns) = 1
              /\ chunk.spawns[1].id = "campfire"
              /\ <<chunk.spawns[1].lx, chunk.spawns[1].ly>> = <<mid, mid>>

C21_Step ==
    \A c \in NewlyCached :
        LET node == GetNodeAt(world_seed, hash_salt, overrides, c[1], c[2])
        IN  node # None =>
              /\ DispatchedAs(generated_chunks'[c], node[1].poi_type)
              /\ generated_chunks'[c].pol = None
              /\ rumor_queue' = rumor_queue

\* C21: a step that generates the chunk of a territory-node anchor gives it
\* the record of the node's type (settlement, dungeon or encampment), binds no
\* rumor to it and leaves the rumor queue as it was.
C21_AnchorDispatchKeepsQueue == [][C21_Step]_vars

\* The last call generated a chunk, an encampment anchor and an anchor of
\* another type are cached, and the two or more rumors added are all still
\* queued.
C21_Witness ==
    /\ has_territory
    /\ last = ChunkCall(TRUE)
    /\ Len(rumor_queue) >= 2
    /\ Len(rumor_queue) = Len(history.added)
    /\ \E c \in DOMAIN generated_chunks :
          /\ GetNodeAt(world_seed, hash_salt, overrides, c[1], c[2]) # None
          /\ generated_chunks[c].keys = {"bespoke_tiles", "spawns", "roads"}
          /\ generated_chunks[c].terrain = "wilderness"
    /\ \E c \in DOMAIN generated_chunks :
          /\ GetNodeAt(world_seed, hash_salt, overrides, c[1], c[2]) # None
          /\ generated_chunks[c].terrain # "wilderness"

\* ----------------------------------------------- the player-move specification
\* The chunks the player moves between: each anchor, the chunk east of it and
\* the chunk four east of it.
MoveOffsets == {0, 1, 4}

MoveChunks(seed, salt, terr) ==
    {<<a[1] + d, a[2]>> : a \in PoiAnchors(seed, salt, terr), d \in MoveOffsets}

\* The player enters chunk `player`: move_entity_ecs calls
\* manage_entity_lifecycle with the player's new position.
PlayerMoves ==
    /\ has_territory
    /\ \E player \in MoveChunks(world_seed, hash_salt, has_territory) :
        \E st \in {ManageEntityLifecycle(LoopNow, world_seed, hash_salt, has_territory,
                                         overrides, player)} :
            /\ generated_chunks' = st.generated_chunks
            /\ rumor_queue' = st.rumor_queue
            /\ planner_rng' = st.planner_rng
            /\ registry' = st.registry
            /\ virtual_entities' = st.virtual_entities
            /\ history' = st.history
            /\ last' = [op |-> "manage_entity_lifecycle", args |-> player, result |-> <<>>]
            /\ UNCHANGED <<world_seed, hash_salt, has_territory, overrides, bsp,
                           snapshot, threads, tables>>

MoveNext == PlayerMoves

SpecMoves == LifecycleInit /\ [][MoveNext]_vars

\* The chunks within materialization distance of the player's chunk.
NearPlayer(player) == {Nearby(player)[k] : k \in DOMAIN Nearby(player)}

\* C22: after a lifecycle pass, no chunk within materialization distance of
\* the player still has entities in the virtual store: whatever was stored
\* for it has been restored and its entry removed.
C22_StoredEntitiesRestoredNearPlayer ==
    last.op = "manage_entity_lifecycle" =>
        \A k \in NearPlayer(last.args) : k \notin DOMAIN virtual_entities

\* For a chunk that had not been materialized before its entities were
\* stored there is nothing left to restore; only a materialized chunk keeps
\* its entry.
C22_OnlyMaterializedChunksKeepEntries ==
    last.op = "manage_entity_lifecycle" =>
        \A k \in NearPlayer(last.args) :
            k \in DOMAIN virtual_entities => generated_chunks[k].is_materialized

\* --------------------------------------------------- the tile specification
\* The global tile coordinates get_tile is asked for: around zero and around
\* the chunk edges on both sides of it.
GlobalTiles ==
    {<<0 - CHUNK_SIZE - 1, 0 - 1>>, <<0 - CHUNK_SIZE, 0>>, <<0 - 1, 0 - CHUNK_SIZE>>,
     <<0, CHUNK_SIZE - 1>>, <<CHUNK_SIZE - 1, 0 - CHUNK_SIZE - 1>>, <<CHUNK_SIZE, CHUNK_SIZE>>}

\* get_tile for a global coordinate; kept of the call: the coordinate, the
\* tile, the chunk get_chunk was asked for and the local coordinate looked up.
CallGetTileAt ==
    \E t \in GlobalTiles :
        \E g \in {GetTile(generated_chunks, world_seed, hash_salt, has_territory, overrides,
                           rumor_queue, planner_rng, t[1], t[2])} :
            /\ generated_chunks' = g.generated_chunks
            /\ rumor_queue' = g.rumor_queue
            /\ planner_rng' = g.planner_rng
            /\ history' = Observed(history, g, <<FloorDiv(t[1], CHUNK_SIZE),
                                                 FloorDiv(t[2], CHUNK_SIZE)>>)
            /\ last' = [op |-> "get_tile", args |-> t,
                        result |-> [tile |-> g.tile, chunk |-> g.chunk.coords,
                                    local |-> <<PyMod(t[1], CHUNK_SIZE),
                                                PyMod(t[2], CHUNK_SIZE)>>]]
            /\ UNCHANGED <<loop_state, world_seed, hash_salt, has_territory, overrides, bsp>>

TileNext == CallGetTileAt

SpecTiles == Init /\ [][TileNext]_vars

\* C23: the chunk get_tile consulted and the local coordinate it looked up
\* satisfy, on both axes, 0 <= local < chunk_size and
\* chunk * chunk_size + local = global; the chunk is therefore the floor of
\* global / chunk_size, also for negative coordinates, and it is the chunk
\* that was fetched.
C23_ChunkAndLocalOfGlobal ==
    last.op = "get_tile" =>
        /\ \A i \in 1..2 :
              /\ 0 <= last.result.local[i]
              /\ last.result.local[i] < CHUNK_SIZE
              /\ last.result.chunk[i] * CHUNK_SIZE + last.result.local[i] = last.args[i]
        /\ last.result.chunk \in DOMAIN generated_chunks

\* A call for a negative coordinate that is not a multiple of the chunk size:
\* a negative chunk index and a positive local coordinate.
C23_Witness ==
    /\ last.op = "get_tile"
    /\ last.args[1] < 0
    /\ last.result.chunk[1] < 0
    /\ last.result.local[1] > 0
    /\ last.args[2] < 0
    /\ last.result.local[2] > 0

\* --------------------------------------------------- the road specification
\* The chunks asked for: the four axis neighbours of the anchor of region
\* (0, 0), the chunk south-east of it and the chunk two east of it.
RoadOffsets == {<<-1, 0>>, <<1, 0>>, <<0, -1>>, <<0, 1>>, <<1, 1>>, <<2, 0>>}

RoadCoords(seed, salt, terr) ==
    {<<a[1] + o[1], a[2] + o[2]>> :
        a \in {IF terr THEN Anchor(seed, salt, <<0, 0>>)
               ELSE FallbackPoiChunks(seed, 0, 0)[1]},
        o \in RoadOffsets}

\* get_chunk for a chunk beside an anchor.
CallGetChunkBesideAnchor ==
    \E c \in RoadCoords(world_seed, hash_salt, has_territory) :
        \E g \in {GetChunk(generated_chunks, world_seed, hash_salt, has_territory, overrides,
                            rumor_queue, planner_rng, c[1], c[2])} :
            /\ generated_chunks' = g.generated_chunks
            /\ rumor_queue' = g.rumor_queue
            /\ planner_rng' = g.planner_rng
            /\ history' = Observed(history, g, c)
            /\ last' = ChunkCallOf(g)
            /\ UNCHANGED <<loop_state, world_seed, hash_salt, has_territory, overrides, bsp>>

RoadNext == CallGetChunkBesideAnchor \/ CallAddRumor

SpecRoads == Init /\ [][RoadNext]_vars

\* The straight run from the chunk center to the edge facing direction d.
Segment(d) ==
    LET mid == CHUNK_SIZE \div 2
    IN  IF d = <<-1, 0>> THEN {<<i, mid>> : i \in 0..mid}
        ELSE IF d = <<1, 0>> THEN {<<i, mid>> : i \in mid..(CHUNK_SIZE - 1)}
        ELSE IF d = <<0, -1>> THEN {<<mid, i>> : i \in 0..mid}
        ELSE {<<mid, i>> : i \in mid..(CHUNK_SIZE - 1)}

AxisDirections == {<<-1, 0>>, <<1, 0>>, <<0, -1>>, <<0, 1>>}

\* The directions in which the chunk at c has an anchor as axis neighbour.
AnchorDirections(c) ==
    {d \in AxisDirections :
        IsPoiChunk(world_seed, hash_salt, has_territory, overrides, c[1] + d[1], c[2] + d[2])}

RoadCells(chunk) == {chunk.roads[k] : k \in 1..Len(chunk.roads)}

NonAnchorsCached ==
    {c \in DOMAIN generated_chunks :
        ~IsPoiChunk(world_seed, hash_salt, has_territory, overrides, c[1], c[2])}

\* C24: the road overlay of a cached chunk that is not an anchor is the union
\* of the center-to-edge runs toward some of its axis neighbours that are
\* anchors (none of them when it has no such neighbour), and all its tiles
\* lie inside the chunk.
C24_RoadsOnlyTowardAnchors ==
    \A c \in NonAnchorsCached :
        /\ \E D \in SUBSET AnchorDirections(c) :
              RoadCells(generated_chunks[c]) = UNION {Segment(d) : d \in D}
        /\ \A t \in RoadCells(generated_chunks[c]) :
              /\ 0 <= t[1] /\ t[1] < CHUNK_SIZE
              /\ 0 <= t[2] /\ t[2] < CHUNK_SIZE

\* Cached are a chunk with a road carved toward an anchor east or south of
\* it, a chunk beside an anchor whose road was not carved, and a chunk with
\* no anchor beside it.
C24_Witness ==
    /\ \E c \in NonAnchorsCached :
          /\ AnchorDirections(c) \cap {<<1, 0>>, <<0, 1>>} # {}
          /\ generated_chunks[c].roads # <<>>
    /\ \E c \in NonAnchorsCached :
          AnchorDirections(c) # {} /\ generated_chunks[c].roads = <<>>
    /\ \E c \in NonAnchorsCached : AnchorDirections(c) = {}

\* ------------------------------------------------ _split: the size test
InnerNodes(tree) == {i \in DOMAIN tree : ~IsLeaf(tree, i)}

\* Whether inner node i was cut along y (split_horizontal): the left child
\* keeps the width and takes `split` < rect.h as its height.
CutAlongY(tree, i) == tree[2 * i].h # tree[i].h

Extent(rect, along_y) == IF along_y THEN rect.h ELSE rect.w

\* C25: a node is split only when neither child is smaller than twice the
\* minimum room size along the split axis.
C25_ChildrenAtLeastTwiceMin ==
    \A i \in InnerNodes(bsp.tree) :
        LET along_y == CutAlongY(bsp.tree, i)
        IN  /\ Extent(bsp.tree[2 * i], along_y) >= 2 * MIN_ROOM_SIZE
            /\ Extent(bsp.tree[2 * i + 1], along_y) >= 2 * MIN_ROOM_SIZE

\* What _split does guarantee: it cuts a node only when the node itself is
\* longer than twice the minimum along the split axis, each child is then at
\* least the minimum, and a node that is too short both ways stays a leaf.
C25_ParentAboveTwiceMinChildrenAtLeastMin ==
    /\ \A i \in InnerNodes(bsp.tree) :
          LET along_y == CutAlongY(bsp.tree, i)
          IN  /\ Extent(bsp.tree[i], along_y) > 2 * MIN_ROOM_SIZE
              /\ Extent(bsp.tree[2 * i], along_y) >= MIN_ROOM_SIZE
              /\ Extent(bsp.tree[2 * i + 1], along_y) >= MIN_ROOM_SIZE
              /\ Extent(bsp.tree[2 * i], along_y) + Extent(bsp.tree[2 * i + 1], along_y)
                   = Extent(bsp.tree[i], along_y)
    /\ \A i \in DOMAIN bsp.tree :
          (bsp.tree[i].w <= 2 * MIN_ROOM_SIZE /\ bsp.tree[i].h <= 2 * MIN_ROOM_SIZE)
             => IsLeaf(bsp.tree, i)

\* ------------------------------------------------ generate: rooms and leaves
Leaves(tree) == {i \in DOMAIN tree : IsLeaf(tree, i)}

\* The most leaves a tree of BSP_ITERATIONS levels of cuts can have.
MaxLeaves == 2 ^ BSP_ITERATIONS

\* C26: generate carves exactly one room per leaf of the partition tree: once
\* _create_rooms is over the room list has as many entries as the tree has
\* leaves, between 1 and 16, every leaf has its room, and no step of generate
\* is left without a way on (nothing raises) before it returns.
C26_OneRoomPerLeaf ==
    /\ Len(bsp.rooms) <= Cardinality(Leaves(bsp.tree))
    /\ Cardinality(Leaves(bsp.tree)) \in 1..MaxLeaves
    /\ bsp.pc \in {"connect", "done"} =>
          /\ Len(bsp.rooms) = Cardinality(Leaves(bsp.tree))
          /\ DOMAIN bsp.room = Leaves(bsp.tree)
          /\ \A i \in Leaves(bsp.tree) :
                \E k \in 1..Len(bsp.rooms) : bsp.rooms[k] = bsp.room[i]
    /\ bsp.pc # "done" => ENABLED BspNext

\* A finished run over a tree that was cut on every level.
C26_Witness ==
    /\ bsp.pc = "done"
    /\ Cardinality(Leaves(bsp.tree)) = MaxLeaves
    /\ Len(bsp.rooms) = Cardinality(Leaves(bsp.tree))

\* A finished run over a grid too small to cut: one leaf, one room.
C26_SingleLeafReached ==
    /\ bsp.pc = "done"
    /\ Leaves(bsp.tree) = {1}
    /\ Len(bsp.rooms) = 1

\* ------------------------------------------- plan_settlement: termination
\* The draws one call of plan_settlement took from the planner's generator.
PlannerDrawn == planner_rng' - planner_rng

\* The jitter attempts of a call that drew limb_count limbs, all of them known
\* modules: one draw for the count, one per limb for its id, two per attempt.
PlannerAttempts(limb_count) == (PlannerDrawn - 1 - limb_count) \div 2

C27_Step ==
    /\ last'.op = "plan_settlement"
    /\ IF "tavern_heart" \notin DOMAIN tables.modules
       THEN last'.result = <<>> /\ PlannerDrawn = 0
       ELSE LET heart == tables.modules["tavern_heart"]
                chunk_size == last'.args[1]
                limb_count == RandInt(world_seed, planner_rng, 1, 2)
                placed == Len(last'.result) - 1
            IN  /\ Len(last'.result) \in 1..3
                /\ last'.result[1] = <<heart, (chunk_size - MapWidth(heart)) \div 2,
                                              (chunk_size - MapHeight(heart)) \div 2>>
                /\ placed <= limb_count
                /\ \A k \in 2..Len(last'.result) :
                      \E j \in 1..Len(LimbIds) :
                          /\ LimbIds[j] \in DOMAIN tables.modules
                          /\ last'.result[k][1] = tables.modules[LimbIds[j]]
                /\ IF \A j \in 1..Len(LimbIds) : LimbIds[j] \in DOMAIN tables.modules
                   THEN /\ PlannerDrawn = 1 + limb_count + 2 * PlannerAttempts(limb_count)
                        /\ PlannerAttempts(limb_count)
                             >= placed + PLACE_ATTEMPTS * (limb_count - placed)
                        /\ PlannerAttempts(limb_count) <= PLACE_ATTEMPTS * limb_count
                   ELSE PlannerDrawn <= 1 + limb_count * (1 + 2 * PLACE_ATTEMPTS)

\* C27: every call of plan_settlement returns; with the heart module it
\* returns 1 to 3 placements, the heart first at ((chunk_size - w) // 2,
\* (chunk_size - h) // 2); each limb is tried at most 10 times, and a limb
\* whose 10 attempts all fail is left out of the list; without the heart the
\* list is empty and nothing is drawn.
C27_PlanTerminatesHeartFirst == [][C27_Step]_vars

\* A call with both limb modules present that returned the heart alone: every
\* limb it drew used up its 10 attempts.
C27_Witness ==
    /\ last.op = "plan_settlement"
    /\ \A j \in 1..Len(LimbIds) : LimbIds[j] \in DOMAIN tables.modules
    /\ Len(last.result) = 1
    /\ last.result[1][1] = tables.modules["tavern_heart"]

\* ------------------------------------------ captures keep the node in place
\* C28: whatever captures succeeded or failed, every macro-region has exactly
\* one coordinate where get_node_at returns a node; that node has the id, the
\* anchor chunk and the point-of-interest type of the node generated from the
\* seed, only its faction may differ, and get_controlling_faction of every
\* chunk of the region is that node's faction.
C28_OneNodePerRegionAfterCaptures ==
    \A r \in Regions :
        LET gen == GenerateNodeForRegion(world_seed, hash_salt, r[1], r[2])
        IN  /\ Cardinality(NodeCoords(r)) = 1
            /\ \A c \in NodeCoords(r) :
                  LET node == GetNodeAt(world_seed, hash_salt, overrides, c[1], c[2])[1]
                  IN  /\ c = <<gen.chunk_x, gen.chunk_y>>
                      /\ node.id = gen.id
                      /\ node.chunk_x = gen.chunk_x
                      /\ node.chunk_y = gen.chunk_y
                      /\ node.poi_type = gen.poi_type
                      /\ \A k \in RegionCoords(r) :
                            GetControllingFaction(world_seed, hash_salt, overrides, k[1], k[2])
                              = node.faction_id

\* Both regions' nodes were captured, one of them by a faction other than the
\* generated one, and the last capture_node call failed.
C28_Witness ==
    /\ \A r \in Regions : Anchor(world_seed, hash_salt, r) \in DOMAIN overrides
    /\ \E r \in Regions :
          overrides[Anchor(world_seed, hash_salt, r)].faction_id
             # GenerateNodeForRegion(world_seed, hash_salt, r[1], r[2]).faction_id
    /\ last.op = "capture_node"
    /\ last.result = FALSE

\* ----------------------------------------------- the spawn-once specification
\* Whether spawning the record puts an entity into the registry: a bespoke
\* record with spawn directives, a wilderness record whose roll succeeds.
Instantiates(chunk) ==
    LET fresh == [chunk EXCEPT !.is_spawned = FALSE]
    IN  (IF chunk.terrain = "bespoke" THEN SpawnBespokeChunk({}, fresh)
         ELSE SpawnWildernessChunk({}, fresh)).registry # {}

\* The chunks of cache g whose spawns have been instantiated.
SpawnedIn(g) == {c \in DOMAIN g : g[c].is_spawned /\ Instantiates(g[c])}

\* history.spawned after a step that took the cache from g to g2.
CountSpawned(h, g, g2) ==
    [h EXCEPT !.spawned =
        [c \in DOMAIN @ \cup (SpawnedIn(g2) \ SpawnedIn(g)) |->
            (IF c \in DOMAIN @ THEN @[c] ELSE 0)
            + (IF c \in SpawnedIn(g2) \ SpawnedIn(g) THEN 1 ELSE 0)]]

\* tick: manage_entity_lifecycle with the player standing in an anchor chunk.
LifecyclePass ==
    /\ has_territory
    /\ \E player \in PlayerChunks(world_seed, hash_salt, has_territory) :
        \E st \in {ManageEntityLifecycle(LoopNow, world_seed, hash_salt, has_territory,
                                         overrides, player)} :
            /\ generated_chunks' = st.generated_chunks
            /\ rumor_queue' = st.rumor_queue
            /\ planner_rng' = st.planner_rng
            /\ registry' = st.registry
            /\ virtual_entities' = st.virtual_entities
            /\ history' = CountSpawned(st.history, generated_chunks, st.generated_chunks)
            /\ last' = [op |-> "manage_entity_lifecycle", args |-> player, result |-> <<>>]
            /\ UNCHANGED <<world_seed, hash_salt, has_territory, overrides, bsp,
                           snapshot, threads, tables>>

\* spawn_bespoke_chunk or spawn_wilderness_chunk called again on a cached record.
CallSpawnAgain ==
    \E c \in DOMAIN generated_chunks :
        \E sp \in {IF generated_chunks[c].terrain = "bespoke"
                   THEN SpawnBespokeChunk(registry, generated_chunks[c])
                   ELSE SpawnWildernessChunk(registry, generated_chunks[c])} :
            /\ registry' = sp.registry
            /\ generated_chunks' = Put(generated_chunks, c, sp.chunk)
            /\ history' = CountSpawned(history, generated_chunks, generated_chunks')
            /\ last' = [op |-> "spawn_chunk", args |-> <<>>, result |-> <<>>]
            /\ UNCHANGED <<world_seed, hash_salt, has_territory, overrides, rumor_queue,
                           planner_rng, bsp, virtual_entities, snapshot, threads, tables>>

\* resume_session of the saved file, in the process that saved it, while no
\* chunk has been generated again after an earlier resume.
ResumeSaved ==
    /\ snapshot # None
    /\ \A c \in DOMAIN history.gen_count : history.gen_count[c] <= MaxRebuilds
    /\ ResumeSession

\* The one save_session of a behaviour.
SaveOnce == snapshot = None /\ SaveSession

SpawnNext == LifecyclePass \/ CallSpawnAgain \/ SaveOnce \/ ResumeSaved

SpecSpawns == LifecycleInit /\ [][SpawnNext]_vars

\* C29: the spawn directives and initial population of a chunk are
\* instantiated at most once over the life of the world, whatever lifecycle
\* passes, spawner calls and save_session/resume_session cycles happen.
C29_SpawnedAtMostOnce ==
    \A c \in DOMAIN history.spawned : history.spawned[c] <= 1

\* Without a resume_session the count stays at one: the is_spawned flag of
\* the cached record stops every later pass and spawner call.
C29_OnceWithoutResume ==
    (\E c \in DOMAIN history.spawned : history.spawned[c] > 1) => snapshot # None

\* ------------------------------------------- captures and the cached faction
C30_Step ==
    /\ \A c \in DOMAIN generated_chunks :
          /\ c \in DOMAIN generated_chunks'
          /\ generated_chunks'[c].faction_id = generated_chunks[c].faction_id
    /\ \A c \in DOMAIN generated_chunks' \ DOMAIN generated_chunks :
          generated_chunks'[c].faction_id
             = GetControllingFaction(world_seed, hash_salt, overrides, c[1], c[2])
    /\ CallCaptureAnchor =>
          UNCHANGED <<generated_chunks, rumor_queue, planner_rng, registry,
                      virtual_entities, world_seed, hash_salt, has_territory>>

====
